---- MODULE Spec2Model ----
(***************************************************************************)
(* A model of the calendar reconciliation engine (CalProxy / Normical):    *)
(* the ICS property model, the event normalizer, the identity functions    *)
(* and the KV-backed reconciler (normalizeCalendar).                       *)
(*                                                                         *)
(* Strings are sequences of tokens.  Every character the code inspects     *)
(* (":" ";" "=" "," "T" "Z" "|" "#") is a token of its own; every other    *)
(* token is an atom that contains none of them, so includes/split/endsWith *)
(* on the text are includes/split/last on the token sequence.              *)
(***************************************************************************)
EXTENDS Integers, Sequences, FiniteSets, TLC

VARIABLES
    kv,               \* the KV namespace: store key -> stored value
    now,              \* Date.now(): one tick per run
    runs,             \* normalization runs started so far
    pc,               \* position of the current run in normalizeCalendar
    feed,             \* parsed.events of the current run
    tz,               \* defaultTimezone of the current run
    idx,              \* loop index (events, then prevSnapshot.eventKeys)
    currentKeys,      \* currentKeys of the current run
    normalizedEvents, \* normalizedEvents of the current run
    kvWrites,         \* puts issued by the run that have not yet taken effect
    prevSnapshot,     \* what getPreviousSnapshot returned (or NoValue)
    kvAtStart,        \* history: the store when the current run began
    emittedBefore,    \* history: event-key -> highest SEQUENCE emitted by completed runs
    lastCancel,       \* history: event-key -> sequence of its latest cancellation
    prevRun,          \* history: feed and output of the previous completed run
    arg,              \* the input of a function applied on its own
    res,              \* what the function returned
    stage,            \* "input" before the function is applied, its name after
    request,          \* the calendar request being served, and what it has read
    response,         \* the Response the request was answered with
    background        \* ctx.waitUntil: saveSnapshot calls that have not finished

\* The variables of the reconciler.
recon == <<kv, now, runs, pc, feed, tz, idx, currentKeys, normalizedEvents,
           kvWrites, prevSnapshot, kvAtStart, emittedBefore, lastCancel, prevRun>>

\* The variables of a function applied on its own.
pure == <<arg, res, stage>>

\* The variables of the request handler.
handler == <<request, response, background>>

vars == <<recon, pure, handler>>

-----------------------------------------------------------------------------
(* Bounds of the model *)

\* Runs of normalizeCalendar in one behaviour.
MaxRuns == 3
\* VEVENTs in one upstream feed.
MaxFeed == 2

-----------------------------------------------------------------------------
(* Generic helpers *)

NoValue == [absent |-> TRUE]

Range(s) == {s[i] : i \in 1..Len(s)}

Max(a, b) == IF a >= b THEN a ELSE b

\* Array.prototype.join for an array of strings.
RECURSIVE JoinWith(_, _)
JoinWith(strs, sep) ==
    IF Len(strs) = 0 THEN <<>>
    ELSE IF Len(strs) = 1 THEN strs[1]
    ELSE strs[1] \o sep \o JoinWith(Tail(strs), sep)

\* String.prototype.indexOf for a one-character needle (0 when absent).
IndexOf(s, tok) ==
    IF \E i \in 1..Len(s) : s[i] = tok
    THEN CHOOSE i \in 1..Len(s) : s[i] = tok /\ \A j \in 1..(i - 1) : s[j] # tok
    ELSE 0

Includes(s, tok) == IndexOf(s, tok) # 0

\* String.prototype.split for a one-character separator.
RECURSIVE Split(_, _)
Split(s, tok) ==
    LET i == IndexOf(s, tok) IN
    IF i = 0 THEN <<s>>
    ELSE <<SubSeq(s, 1, i - 1)>> \o Split(SubSeq(s, i + 1, Len(s)), tok)

-----------------------------------------------------------------------------
(* Code-unit order of strings, used by Array.prototype.sort() *)

\* The atoms of the model in ascending order of their text.
TokenOrder ==
    << "\n", " ", "#", ")", ",", "0a", "1", "19700101", "20240601", "20240602", "20240608", "20240615",
       ":", ";", "=",
       "090000", "093000", "100000", "120000",
       "America/Chicago", "America/New_York", "Cancelled Event",
       "Central Standard Time", "DESCRIPTION", "DTEND", "DTSTAMP", "DTSTART",
       "END", "Eastern Standard Time", "Europe/Berlin", "LAST-MODIFIED", "LOCATION",
       "M", "M2", "O", "ORGANIZER", "RECURRENCE-ID", "Room1", "Room2",
       "SEQUENCE", "SUMMARY", "T", "TZID", "UID", "UTC", "VEVENT", "X", "Y", "Z",
       "a0", "b7", "|" >>

TokRank(t) == CHOOSE i \in 1..Len(TokenOrder) : TokenOrder[i] = t

RECURSIVE StrLess(_, _)
StrLess(a, b) ==
    IF Len(b) = 0 THEN FALSE
    ELSE IF Len(a) = 0 THEN TRUE
    ELSE IF a[1] = b[1] THEN StrLess(Tail(a), Tail(b))
    ELSE TokRank(a[1]) < TokRank(b[1])

\* Insert one string into a sorted array.
RECURSIVE InsertSorted(_, _)
InsertSorted(x, sorted) ==
    IF Len(sorted) = 0 THEN <<x>>
    ELSE IF ~StrLess(sorted[1], x) THEN <<x>> \o sorted
    ELSE <<sorted[1]>> \o InsertSorted(x, Tail(sorted))

\* Array.prototype.sort() with the default comparison.
RECURSIVE SortStrings(_)
SortStrings(strs) ==
    IF Len(strs) = 0 THEN <<>>
    ELSE InsertSorted(strs[1], SortStrings(Tail(strs)))

-----------------------------------------------------------------------------
(* ICS properties and the parser's VEVENT branch (parser.ts) *)

\* toUpperCase on the atoms of the model that are not already upper case.
UpperTok(t) ==
    CASE t = "dtstamp" -> "DTSTAMP"
      [] t = "tzid" -> "TZID"
      [] t = "uid" -> "UID"
      [] t = "sequence" -> "SEQUENCE"
      [] OTHER -> t

ToUpperCase(s) == [i \in 1..Len(s) |-> UpperTok(s[i])]

\* Map.prototype.set: an existing key keeps its place and takes the new value.
ParamSet(params, k, v) ==
    IF \E i \in 1..Len(params) : params[i][1] = k
    THEN [i \in 1..Len(params) |-> IF params[i][1] = k THEN <<k, v>> ELSE params[i]]
    ELSE Append(params, <<k, v>>)

\* Map.prototype.get; undefined is modelled as the empty string (every caller
\* only tests the result for truthiness).
ParamGet(params, k) ==
    IF \E i \in 1..Len(params) : params[i][1] = k
    THEN params[CHOOSE i \in 1..Len(params) : params[i][1] = k][2]
    ELSE <<>>

RECURSIVE ParseParams(_, _)
ParseParams(parts, params) ==
    IF Len(parts) = 0 THEN params
    ELSE LET part == parts[1]
             eqIdx == IndexOf(part, "=")
         IN  ParseParams(Tail(parts),
                 IF eqIdx # 0
                 THEN ParamSet(params, ToUpperCase(SubSeq(part, 1, eqIdx - 1)),
                               SubSeq(part, eqIdx + 1, Len(part)))
                 ELSE params)

\* parseProperty: NoValue stands for null.
parseProperty(line) ==
    LET colonIdx == IndexOf(line, ":") IN
    IF colonIdx = 0 THEN NoValue
    ELSE LET beforeColon == SubSeq(line, 1, colonIdx - 1)
             value == SubSeq(line, colonIdx + 1, Len(line))
             semiIdx == IndexOf(beforeColon, ";")
             name == IF semiIdx = 0 THEN beforeColon
                     ELSE SubSeq(beforeColon, 1, semiIdx - 1)
             params == IF semiIdx = 0 THEN <<>>
                       ELSE ParseParams(
                              Split(SubSeq(beforeColon, semiIdx + 1, Len(beforeColon)), ";"),
                              <<>>)
         IN  [name |-> ToUpperCase(name), params |-> params, value |-> value]

\* The lines parseIcs handles while inEvent: each line that parses is pushed to
\* currentEventProps (the END:VEVENT line included), a UID property overwrites
\* currentUid.
RECURSIVE ParseEventLines(_, _, _)
ParseEventLines(lines, props, uid) ==
    IF Len(lines) = 0 THEN [uid |-> uid, properties |-> props]
    ELSE LET prop == parseProperty(lines[1]) IN
         IF prop = NoValue THEN ParseEventLines(Tail(lines), props, uid)
         ELSE ParseEventLines(Tail(lines), Append(props, prop),
                              IF prop.name = <<"UID">> THEN prop.value ELSE uid)

\* The IcsEvent parseIcs builds from the lines that follow BEGIN:VEVENT, up to
\* and including END:VEVENT.
ParseEvent(body) == ParseEventLines(body \o << <<"END", ":", "VEVENT">> >>, <<>>, <<>>)

\* getProperty: the first property of that name (NoValue for undefined).
getProperty(event, name) ==
    IF \E i \in 1..Len(event.properties) : event.properties[i].name = name
    THEN event.properties[CHOOSE i \in 1..Len(event.properties) :
             /\ event.properties[i].name = name
             /\ \A j \in 1..(i - 1) : event.properties[j].name # name]
    ELSE NoValue

\* prop?.value || ''
ValueOrEmpty(prop) == IF prop = NoValue THEN <<>> ELSE prop.value

-----------------------------------------------------------------------------
(* Identity derivation (computeStableUid, computeContentHash) *)

\* SHA-256 is modelled as a collision-free function: the hex rendering of a
\* digest (or of its first 16 bytes) is the hashed text between two markers.
Sha256Hex(data) == <<"sha256(">> \o data \o <<")">>

Sha256Hex16(data) == <<"sha256/16(">> \o data \o <<")">>

UidComponents(event) ==
    JoinWith(<< ValueOrEmpty(getProperty(event, <<"DTSTART">>)),
                ValueOrEmpty(getProperty(event, <<"SUMMARY">>)),
                ValueOrEmpty(getProperty(event, <<"ORGANIZER">>)),
                event.uid >>, <<"|">>)

computeStableUid(event) == Sha256Hex16(UidComponents(event))

VolatileNames == {<<"DTSTAMP">>, <<"LAST-MODIFIED">>, <<"SEQUENCE">>}

NameValue(p) == p.name \o <<":">> \o p.value

stableProps(event) ==
    LET kept == SelectSeq(event.properties, LAMBDA p : p.name \notin VolatileNames)
    IN  JoinWith(SortStrings([i \in 1..Len(kept) |-> NameValue(kept[i])]), <<"\n">>)

computeContentHash(event) == Sha256Hex(stableProps(event))

-----------------------------------------------------------------------------
(* Constants of lib/constants.ts, as the specification gives them *)

DEFAULT_TIMEZONE == <<"America/New_York">>

\* MS_TO_IANA_TIMEZONES (the four entries the specification names).
MsToIana(id) ==
    CASE id = <<"Eastern Standard Time">> -> <<"America/New_York">>
      [] id = <<"US Eastern Standard Time">> -> <<"America/Indiana/Indianapolis">>
      [] id = <<"Central Standard Time">> -> <<"America/Chicago">>
      [] id = <<"Pacific Standard Time">> -> <<"America/Los_Angeles">>
      [] OTHER -> <<>>

MsTimezoneNames ==
    { <<"Eastern Standard Time">>, <<"US Eastern Standard Time">>,
      <<"Central Standard Time">>, <<"Pacific Standard Time">> }

PROPERTY_ORDER ==
    << <<"DTSTAMP">>, <<"DTSTART">>, <<"DTEND">>, <<"SUMMARY">>, <<"DESCRIPTION">>,
       <<"LOCATION">>, <<"STATUS">>, <<"ORGANIZER">>, <<"ATTENDEE">>,
       <<"RECURRENCE-ID">>, <<"RRULE">>, <<"EXDATE">>, <<"RDATE">>, <<"CREATED">>,
       <<"LAST-MODIFIED">>, <<"CATEGORIES">>, <<"PRIORITY">>, <<"TRANSP">>,
       <<"CLASS">> >>

-----------------------------------------------------------------------------
(* The normalizer (normalize.ts) *)

\* MS_TO_IANA_TIMEZONES[tzid] || tzid
normalizeTimezone(tzid) == IF MsToIana(tzid) # <<>> THEN MsToIana(tzid) ELSE tzid

parseDateTimeValue(value) ==
    LET isUtc == Len(value) > 0 /\ value[Len(value)] = "Z"
        cleanValue == IF isUtc THEN SubSeq(value, 1, Len(value) - 1) ELSE value
    IN  IF Includes(cleanValue, "T")
        THEN LET parts == Split(cleanValue, "T")
             IN  [date |-> parts[1], time |-> parts[2], isUtc |-> isUtc,
                  isDateOnly |-> FALSE]
        ELSE [date |-> cleanValue, time |-> <<>>, isUtc |-> FALSE, isDateOnly |-> TRUE]

\* prop.params.get('TZID') || defaultTz
TzidOrDefault(prop, defaultTz) ==
    IF ParamGet(prop.params, <<"TZID">>) # <<>>
    THEN ParamGet(prop.params, <<"TZID">>)
    ELSE defaultTz

normalizeDateTimeProp(prop, defaultTz) ==
    LET d == parseDateTimeValue(prop.value) IN
    IF d.isDateOnly THEN prop.name \o <<";", "VALUE", "=", "DATE", ":">> \o d.date
    ELSE IF d.isUtc THEN prop.name \o <<":">> \o d.date \o <<"T">> \o d.time \o <<"Z">>
    ELSE prop.name \o <<";", "TZID", "=">>
             \o normalizeTimezone(TzidOrDefault(prop, defaultTz))
             \o <<":">> \o d.date \o <<"T">> \o d.time

\* String.prototype.trim
RECURSIVE Trim(_)
Trim(s) ==
    IF Len(s) > 0 /\ s[1] = " " THEN Trim(Tail(s))
    ELSE IF Len(s) > 0 /\ s[Len(s)] = " " THEN Trim(SubSeq(s, 1, Len(s) - 1))
    ELSE s

\* One entry of an EXDATE/RDATE list, reassembled.
ExdateEntry(val) ==
    LET d == parseDateTimeValue(Trim(val)) IN
    IF d.isDateOnly THEN d.date
    ELSE IF d.isUtc THEN d.date \o <<"T">> \o d.time \o <<"Z">>
    ELSE d.date \o <<"T">> \o d.time

normalizeExdateRdate(prop) ==
    LET values == Split(prop.value, ",")
        rawTzid == ParamGet(prop.params, <<"TZID">>)
        tzid == IF rawTzid # <<>> THEN normalizeTimezone(rawTzid) ELSE rawTzid
        normalized == SortStrings([i \in 1..Len(values) |-> ExdateEntry(values[i])])
        isDateOnlyResult == normalized[1] # <<>> /\ ~Includes(normalized[1], "T")
    IN  IF isDateOnlyResult
        THEN prop.name \o <<";", "VALUE", "=", "DATE", ":">> \o JoinWith(normalized, <<",">>)
        ELSE IF tzid # <<>>
        THEN prop.name \o <<";", "TZID", "=">> \o tzid \o <<":">>
                 \o JoinWith(normalized, <<",">>)
        ELSE prop.name \o <<":">> \o JoinWith(normalized, <<",">>)

normalizeRecurrenceId(prop, defaultTz) ==
    LET d == parseDateTimeValue(prop.value) IN
    IF d.isDateOnly THEN <<"RECURRENCE-ID", ";", "VALUE", "=", "DATE", ":">> \o d.date
    ELSE IF d.isUtc
    THEN <<"RECURRENCE-ID", ":">> \o d.date \o <<"T">> \o d.time \o <<"Z">>
    ELSE <<"RECURRENCE-ID", ";", "TZID", "=">>
             \o normalizeTimezone(TzidOrDefault(prop, defaultTz))
             \o <<":">> \o d.date \o <<"T">> \o d.time

\* The parameters sorted by name (localeCompare on the names).
RECURSIVE InsertParam(_, _)
InsertParam(x, sorted) ==
    IF Len(sorted) = 0 THEN <<x>>
    ELSE IF ~StrLess(sorted[1][1], x[1]) THEN <<x>> \o sorted
    ELSE <<sorted[1]>> \o InsertParam(x, Tail(sorted))

RECURSIVE SortParams(_)
SortParams(params) ==
    IF Len(params) = 0 THEN <<>>
    ELSE InsertParam(params[1], SortParams(Tail(params)))

RECURSIVE ParamText(_)
ParamText(params) ==
    IF Len(params) = 0 THEN <<>>
    ELSE <<";">> \o params[1][1] \o <<"=">> \o params[1][2] \o ParamText(Tail(params))

reconstructProperty(prop) ==
    prop.name \o ParamText(SortParams(prop.params)) \o <<":">> \o prop.value

IntToks == {"1", "2", "-1"}

WeekdayToks == {"MO", "TU", "WE", "TH", "FR", "SA", "SU"}

\* First index where /BYSETPOS=(-?\d+)/ matches (0: no match).
BysetposAt(v) ==
    LET hits == {i \in 1..(Len(v) - 2) :
                    v[i] = "BYSETPOS" /\ v[i + 1] = "=" /\ v[i + 2] \in IntToks}
    IN  IF hits = {} THEN 0 ELSE CHOOSE i \in hits : \A j \in hits : i <= j

\* First index where /BYDAY=([A-Z]{2})/ matches (0: no match).
BydayAt(v) ==
    LET hits == {i \in 1..(Len(v) - 2) :
                    v[i] = "BYDAY" /\ v[i + 1] = "=" /\ v[i + 2] \in WeekdayToks}
    IN  IF hits = {} THEN 0 ELSE CHOOSE i \in hits : \A j \in hits : i <= j

\* /BYDAY=[^;]*,/
BydayHasList(v) ==
    \E i \in 1..(Len(v) - 2) :
        /\ v[i] = "BYDAY" /\ v[i + 1] = "="
        /\ \E j \in (i + 2)..Len(v) :
              v[j] = "," /\ \A k \in (i + 2)..(j - 1) : v[k] # ";"

normalizeRrule(prop) ==
    LET value == prop.value
        sp == BysetposAt(value)
        bd == BydayAt(value)
    IN  IF sp # 0 /\ bd # 0 /\ ~BydayHasList(value)
        THEN LET pos == value[sp + 2]
                 from == IF sp > 1 /\ value[sp - 1] = ";" THEN sp - 1 ELSE sp
                 cut == SubSeq(value, 1, from - 1) \o SubSeq(value, sp + 3, Len(value))
                 at == BydayAt(cut)
             IN  <<"RRULE", ":">> \o
                 (IF at = 0 THEN cut
                  ELSE SubSeq(cut, 1, at + 1) \o <<pos>> \o SubSeq(cut, at + 2, Len(cut)))
        ELSE <<"RRULE", ":">> \o value

normalizeProperty(prop, defaultTz) ==
    CASE prop.name \in {<<"DTSTART">>, <<"DTEND">>} -> normalizeDateTimeProp(prop, defaultTz)
      [] prop.name = <<"RECURRENCE-ID">> -> normalizeRecurrenceId(prop, defaultTz)
      [] prop.name = <<"RRULE">> -> normalizeRrule(prop)
      [] prop.name \in {<<"EXDATE">>, <<"RDATE">>} -> normalizeExdateRdate(prop)
      [] prop.name \in {<<"DTSTAMP">>, <<"CREATED">>, <<"LAST-MODIFIED">>} ->
            normalizeDateTimeProp(prop, <<"UTC">>)
      [] OTHER -> reconstructProperty(prop)

\* The keys of propsByName in insertion order.
RECURSIVE NamesInOrder(_, _)
NamesInOrder(props, seen) ==
    IF Len(props) = 0 THEN seen
    ELSE NamesInOrder(Tail(props),
             IF props[1].name \in Range(seen) THEN seen ELSE Append(seen, props[1].name))

PropsNamed(event, name) == SelectSeq(event.properties, LAMBDA p : p.name = name)

\* The lines of the properties of each of `names`, in that order of names.
RECURSIVE LinesFor(_, _, _, _)
LinesFor(event, names, defaultTz, canonical) ==
    IF Len(names) = 0 THEN <<>>
    ELSE LET props == PropsNamed(event, names[1])
             lines == [i \in 1..Len(props) |->
                          IF canonical THEN normalizeProperty(props[i], defaultTz)
                          ELSE reconstructProperty(props[i])]
         IN  SelectSeq(lines, LAMBDA l : l # <<>>)
                 \o LinesFor(event, Tail(names), defaultTz, canonical)

\* A variant of normalizeEventLines whose emittedProps starts empty: upstream
\* UID and SEQUENCE properties are reconstructed with the other properties.
normalizeEventLinesKeepingUid(event, stableUid, sequence, defaultTz) ==
    LET zone == IF defaultTz # <<>> THEN defaultTz ELSE DEFAULT_TIMEZONE
        present == NamesInOrder(event.properties, <<>>)
        ordered == SelectSeq(PROPERTY_ORDER, LAMBDA n : n \in Range(present))
        emittedProps == Range(ordered)
        rest == SelectSeq(present,
                    LAMBDA n : n \notin emittedProps /\ n \notin {<<"BEGIN">>, <<"END">>})
    IN  << <<"BEGIN", ":", "VEVENT">>,
           <<"UID", ":">> \o stableUid \o <<"@calproxy">>,
           <<"SEQUENCE", ":", ToString(sequence)>> >>
        \o LinesFor(event, ordered, zone, TRUE)
        \o LinesFor(event, rest, zone, FALSE)
        \o << <<"END", ":", "VEVENT">> >>

normalizeEventLines(event, stableUid, sequence, defaultTz) ==
    LET zone == IF defaultTz # <<>> THEN defaultTz ELSE DEFAULT_TIMEZONE
        present == NamesInOrder(event.properties, <<>>)
        ordered == SelectSeq(PROPERTY_ORDER, LAMBDA n : n \in Range(present))
        emittedProps == {<<"UID">>, <<"SEQUENCE">>} \cup Range(ordered)
        rest == SelectSeq(present,
                    LAMBDA n : n \notin emittedProps /\ n \notin {<<"BEGIN">>, <<"END">>})
    IN  << <<"BEGIN", ":", "VEVENT">>,
           <<"UID", ":">> \o stableUid \o <<"@calproxy">>,
           <<"SEQUENCE", ":", ToString(sequence)>> >>
        \o LinesFor(event, ordered, zone, TRUE)
        \o LinesFor(event, rest, zone, FALSE)
        \o << <<"END", ":", "VEVENT">> >>

\* new Date() rendered as YYYYMMDDTHHMMSSZ: the model's clock gives the time part.
Dtstamp(t) == <<"20240701", "T", ToString(t), "Z">>

createCancelledEventLines(stableUid, sequence, recurrenceId, t) ==
    << <<"BEGIN", ":", "VEVENT">>,
       <<"UID", ":">> \o stableUid \o <<"@calproxy">>,
       <<"SEQUENCE", ":", ToString(sequence)>>,
       <<"DTSTAMP", ":">> \o Dtstamp(t),
       <<"STATUS", ":", "CANCELLED">> >>
    \o (IF recurrenceId # <<>>
        THEN << <<"RECURRENCE-ID", ":">> \o recurrenceId, <<"DTSTART", ":">> \o recurrenceId >>
        ELSE << <<"DTSTART", ":">> \o Dtstamp(t) >>)
    \o << <<"SUMMARY", ":", "Cancelled Event">>, <<"END", ":", "VEVENT">> >>

-----------------------------------------------------------------------------
(* The state store (state.ts): Cloudflare KV, string keys and JSON values *)

\* The tenant whose runs the reconciler specification follows.
TenantHash == "a1b2"

\* `${prefix}:${kind}:${id}` when a prefix is given, `${kind}:${id}` otherwise.
KvKey(prefix, kind, id) == IF prefix # "" THEN <<prefix, kind, id>> ELSE <<"", kind, id>>

\* kv.get: NoValue stands for null.
KvGet(store, key) == IF key \in DOMAIN store THEN store[key] ELSE NoValue

\* kv.put
KvPut(store, key, value) ==
    [k \in DOMAIN store \cup {key} |-> IF k = key THEN value ELSE store[k]]

\* getEventState: JSON.parse of what was stored, null when nothing is.
getEventState(store, eventKey, prefix) == KvGet(store, KvKey(prefix, "event", eventKey))

\* The put saveEventState issues.
saveEventState(eventKey, state, prefix) ==
    [key |-> KvKey(prefix, "event", eventKey), value |-> state]

getPreviousSnapshot(store, prefix) == KvGet(store, KvKey(prefix, "snapshot", <<"keys">>))

\* The put saveSnapshotKeys issues.
saveSnapshotKeys(keys, t, prefix) ==
    [key |-> KvKey(prefix, "snapshot", <<"keys">>),
     value |-> [eventKeys |-> keys, generatedAt |-> t]]

-----------------------------------------------------------------------------
(* Upstream feeds of the reconciler specification *)

UidX == <<"UID", ":", "X">>
Stamp1 == <<"DTSTAMP", ":", "20240601", "T", "120000", "Z">>
Stamp2 == <<"DTSTAMP", ":", "20240602", "T", "120000", "Z">>
Start1 == <<"DTSTART", ":", "20240601", "T", "090000">>
Start1Tz == <<"DTSTART", ";", "TZID", "=", "Eastern Standard Time", ":",
              "20240601", "T", "090000">>
SumM == <<"SUMMARY", ":", "M">>
SumM2 == <<"SUMMARY", ":", "M2">>
OrgO == <<"ORGANIZER", ":", "O">>
Loc1 == <<"LOCATION", ":", "Room1">>
Rid1 == <<"RECURRENCE-ID", ":", "20240608", "T", "090000">>

\* The VEVENTs upstream can send: scenario S1's event; the same with only its
\* DTSTAMP changed; with a LOCATION added; with only a TZID parameter added;
\* with its SUMMARY changed (another stable uid); and an override of it.
EventPool ==
    { ParseEvent(<<UidX, Stamp1, Start1, SumM, OrgO>>),
      ParseEvent(<<UidX, Stamp2, Start1, SumM, OrgO>>),
      ParseEvent(<<UidX, Stamp1, Start1, SumM, OrgO, Loc1>>),
      ParseEvent(<<UidX, Stamp1, Start1Tz, SumM, OrgO>>),
      ParseEvent(<<UidX, Stamp1, Start1, SumM2, OrgO>>),
      ParseEvent(<<UidX, Stamp1, Start1, SumM, OrgO, Rid1>>) }

Feeds == UNION {[1..n -> EventPool] : n \in 0..MaxFeed}

TenantZones == { <<"America/Chicago">> }

-----------------------------------------------------------------------------
(* The reconciler (normalizeCalendar, createCancelledEventFromState) *)

\* `${stableUid}#${recurrenceIdProp?.value}` for an exception, stableUid otherwise.
EventKey(event) ==
    IF getProperty(event, <<"RECURRENCE-ID">>) # NoValue
    THEN computeStableUid(event) \o <<"#">> \o getProperty(event, <<"RECURRENCE-ID">>).value
    ELSE computeStableUid(event)

\* sequence = prevState ? (hash differs ? prevState.sequence + 1 : prevState.sequence) : 0
NextSequence(prevState, contentHash) ==
    IF prevState = NoValue THEN 0
    ELSE IF prevState.contentHash # contentHash THEN prevState.sequence + 1
    ELSE prevState.sequence

\* The NormalizedEvent of one parsed event.  eventKey and cancelled are not
\* fields of the code's record: they label the entry for the properties below.
NormalizedOf(event, sequence, defaultTz) ==
    [stableUid |-> computeStableUid(event),
     sequence |-> sequence,
     isException |-> getProperty(event, <<"RECURRENCE-ID">>) # NoValue,
     recurrenceId |-> ValueOrEmpty(getProperty(event, <<"RECURRENCE-ID">>)),
     lines |-> normalizeEventLines(event, computeStableUid(event), sequence, defaultTz),
     eventKey |-> EventKey(event),
     cancelled |-> FALSE]

\* eventKey.includes('#') ? eventKey.split('#') : [eventKey, null]
SplitKey(eventKey) ==
    IF Includes(eventKey, "#")
    THEN <<Split(eventKey, "#")[1], Split(eventKey, "#")[2]>>
    ELSE <<eventKey, <<>>>>

\* A variant of CancelledState that advances the sequence and keeps the stored
\* content-hash instead of the CANCELLED sentinel.
CancelledStateKeepingHash(prevState, t) ==
    [sequence |-> prevState.sequence + 1, contentHash |-> prevState.contentHash,
     lastSeen |-> t]

\* The state createCancelledEventFromState stores for a disappeared key.
CancelledState(prevState, t) ==
    [sequence |-> prevState.sequence + 1, contentHash |-> <<"CANCELLED">>, lastSeen |-> t]

\* The NormalizedEvent createCancelledEventFromState returns.
CancelledOf(eventKey, prevState, t) ==
    LET stableUid == SplitKey(eventKey)[1]
        recurrenceId == SplitKey(eventKey)[2]
    IN  [stableUid |-> stableUid,
         sequence |-> prevState.sequence + 1,
         isException |-> recurrenceId # <<>>,
         recurrenceId |-> recurrenceId,
         lines |-> createCancelledEventLines(stableUid, prevState.sequence + 1, recurrenceId, t),
         eventKey |-> eventKey,
         cancelled |-> TRUE]

\* The event-keys -> highest sequence among `out`, merged over `before`.
RECURSIVE FoldEmitted(_, _)
FoldEmitted(out, before) ==
    IF Len(out) = 0 THEN before
    ELSE LET k == out[1].eventKey
             old == IF k \in DOMAIN before THEN before[k] ELSE 0
         IN  FoldEmitted(Tail(out),
                 [x \in DOMAIN before \cup {k} |->
                     IF x = k THEN Max(old, out[1].sequence) ELSE before[x]])

\* The cancellations of `out`, keyed by event-key, merged over `before`.
RECURSIVE FoldCancelled(_, _)
FoldCancelled(out, before) ==
    IF Len(out) = 0 THEN before
    ELSE IF ~out[1].cancelled THEN FoldCancelled(Tail(out), before)
    ELSE LET k == out[1].eventKey
         IN  FoldCancelled(Tail(out),
                 [x \in DOMAIN before \cup {k} |->
                     IF x = k THEN out[1].sequence ELSE before[x]])

EmptyMap == [x \in {} |-> 0]

ReconInit ==
    /\ kv = EmptyMap
    /\ now = 0
    /\ runs = 0
    /\ pc = "idle"
    /\ feed = <<>>
    /\ tz \in TenantZones
    /\ idx = 1
    /\ currentKeys = <<>>
    /\ normalizedEvents = <<>>
    /\ kvWrites = {}
    /\ prevSnapshot = NoValue
    /\ kvAtStart = EmptyMap
    /\ emittedBefore = EmptyMap
    /\ lastCancel = EmptyMap
    /\ prevRun = NoValue

\* The request record before any request has been received.  The fields output,
\* path, normalized, alone and produced are not state of the code: they record
\* what the request did, for the properties below (produced: the pairs of
\* serialized output and upstream hash of the normalizations so far).
NoRequest ==
    [id |-> 0, ifNoneMatch |-> NoValue, at |-> "none", upstream |-> NoValue,
     output |-> NoValue, path |-> "none", normalized |-> FALSE, alone |-> TRUE,
     produced |-> {}]

\* No request has been received.
HandlerInit ==
    /\ request = NoRequest
    /\ response = NoValue
    /\ background = {}

Init ==
    /\ ReconInit
    /\ HandlerInit
    /\ arg = NoValue
    /\ res = NoValue
    /\ stage = "none"

\* The locals of normalizeCalendar before its first loop, for the events `f`.
StartRun(f) ==
    /\ pc \in {"idle", "done"}
    /\ runs < MaxRuns
    /\ runs' = runs + 1
    /\ now' = now + 1
    /\ feed' = f
    /\ pc' = "events"
    /\ idx' = 1
    /\ currentKeys' = <<>>
    /\ normalizedEvents' = <<>>
    /\ kvWrites' = {}
    /\ prevSnapshot' = NoValue
    /\ kvAtStart' = kv
    /\ emittedBefore' = FoldEmitted(normalizedEvents, emittedBefore)
    /\ lastCancel' = FoldCancelled(normalizedEvents, lastCancel)
    /\ prevRun' = IF pc = "done" THEN [feed |-> feed, out |-> normalizedEvents] ELSE prevRun
    /\ UNCHANGED <<kv, tz>>

\* handleCalendarRequest reaches normalizeCalendar with the parsed upstream feed.
BeginRun(f) ==
    /\ StartRun(f)
    /\ UNCHANGED pure
    /\ UNCHANGED handler

\* One iteration of `for (const event of parsed.events)`: the state is read, the
\* put is issued without being awaited (kvWrites.push(saveEventState(...))).
ProcessEvent ==
    /\ pc = "events"
    /\ idx <= Len(feed)
    /\ LET event == feed[idx]
           eventKey == EventKey(event)
           prevState == getEventState(kv, eventKey, TenantHash)
           sequence == NextSequence(prevState, computeContentHash(event))
           newState == [sequence |-> sequence,
                        contentHash |-> computeContentHash(event),
                        lastSeen |-> now]
       IN  /\ currentKeys' = Append(currentKeys, eventKey)
           /\ kvWrites' = kvWrites \cup {saveEventState(eventKey, newState, TenantHash)}
           /\ normalizedEvents' = Append(normalizedEvents, NormalizedOf(event, sequence, tz))
    /\ idx' = idx + 1
    /\ UNCHANGED <<kv, now, runs, pc, feed, tz, prevSnapshot, kvAtStart, emittedBefore,
                   lastCancel, prevRun>>
    /\ UNCHANGED pure
    /\ UNCHANGED handler

\* A put that was issued and not awaited takes effect in the store.
LandWrite ==
    /\ \E w \in kvWrites :
          /\ kv' = KvPut(kv, w.key, w.value)
          /\ kvWrites' = kvWrites \ {w}
    /\ UNCHANGED <<now, runs, pc, feed, tz, idx, currentKeys, normalizedEvents,
                   prevSnapshot, kvAtStart, emittedBefore, lastCancel, prevRun>>
    /\ UNCHANGED pure
    /\ UNCHANGED handler

\* const prevSnapshot = await getPreviousSnapshot(kv, tenantHash)
LoadSnapshot ==
    /\ pc = "events"
    /\ idx > Len(feed)
    /\ prevSnapshot' = getPreviousSnapshot(kv, TenantHash)
    /\ pc' = "cancel"
    /\ idx' = 1
    /\ UNCHANGED <<kv, now, runs, feed, tz, currentKeys, normalizedEvents, kvWrites,
                   kvAtStart, emittedBefore, lastCancel, prevRun>>
    /\ UNCHANGED pure
    /\ UNCHANGED handler

\* A variant of OldKeys for a run that does not look at the previous snapshot.
OldKeysIgnored == <<>>

OldKeys == IF prevSnapshot = NoValue THEN <<>> ELSE prevSnapshot.eventKeys

\* A variant of CancelStep that does not test currentKeys.has(oldKey).
CancelStepUnchecked ==
    /\ pc = "cancel"
    /\ idx <= Len(OldKeys)
    /\ LET oldKey == OldKeys[idx]
           prevState == getEventState(kv, oldKey, TenantHash)
           w == saveEventState(oldKey, CancelledState(prevState, now), TenantHash)
       IN  IF prevState # NoValue
           THEN /\ kv' = KvPut(kv, w.key, w.value)
                /\ normalizedEvents' =
                       Append(normalizedEvents, CancelledOf(oldKey, prevState, now))
           ELSE UNCHANGED <<kv, normalizedEvents>>
    /\ idx' = idx + 1
    /\ UNCHANGED <<now, runs, pc, feed, tz, currentKeys, kvWrites, prevSnapshot,
                   kvAtStart, emittedBefore, lastCancel, prevRun>>
    /\ UNCHANGED pure
    /\ UNCHANGED handler

\* One iteration of `for (const oldKey of prevSnapshot.eventKeys)`; the put of
\* createCancelledEventFromState is awaited.
CancelStep ==
    /\ pc = "cancel"
    /\ idx <= Len(OldKeys)
    /\ LET oldKey == OldKeys[idx]
           prevState == getEventState(kv, oldKey, TenantHash)
           w == saveEventState(oldKey, CancelledState(prevState, now), TenantHash)
       IN  IF oldKey \notin Range(currentKeys) /\ prevState # NoValue
           THEN /\ kv' = KvPut(kv, w.key, w.value)
                /\ normalizedEvents' =
                       Append(normalizedEvents, CancelledOf(oldKey, prevState, now))
           ELSE UNCHANGED <<kv, normalizedEvents>>
    /\ idx' = idx + 1
    /\ UNCHANGED <<now, runs, pc, feed, tz, currentKeys, kvWrites, prevSnapshot,
                   kvAtStart, emittedBefore, lastCancel, prevRun>>
    /\ UNCHANGED pure
    /\ UNCHANGED handler

\* A variant of SaveSnapshotKeys that saves the keys of every entry of the
\* output, the synthesized cancellations included.
SaveSnapshotKeysOfOutput ==
    /\ pc = "cancel"
    /\ idx > Len(OldKeys)
    /\ kvWrites' = kvWrites \cup
           {saveSnapshotKeys([i \in 1..Len(normalizedEvents) |-> normalizedEvents[i].eventKey],
                             now, TenantHash)}
    /\ pc' = "await"
    /\ UNCHANGED <<kv, now, runs, feed, tz, idx, currentKeys, normalizedEvents,
                   prevSnapshot, kvAtStart, emittedBefore, lastCancel, prevRun>>
    /\ UNCHANGED pure
    /\ UNCHANGED handler

\* kvWrites.push(saveSnapshotKeys(kv, currentKeys, tenantHash))
SaveSnapshotKeys ==
    /\ pc = "cancel"
    /\ idx > Len(OldKeys)
    /\ kvWrites' = kvWrites \cup {saveSnapshotKeys(currentKeys, now, TenantHash)}
    /\ pc' = "await"
    /\ UNCHANGED <<kv, now, runs, feed, tz, idx, currentKeys, normalizedEvents,
                   prevSnapshot, kvAtStart, emittedBefore, lastCancel, prevRun>>
    /\ UNCHANGED pure
    /\ UNCHANGED handler

\* A variant of FinishRun that returns without waiting for the puts of kvWrites.
FinishRunUnawaited ==
    /\ pc = "await"
    /\ pc' = "done"
    /\ UNCHANGED <<kv, now, runs, feed, tz, idx, currentKeys, normalizedEvents,
                   kvWrites, prevSnapshot, kvAtStart, emittedBefore, lastCancel, prevRun>>
    /\ UNCHANGED pure
    /\ UNCHANGED handler

\* await Promise.all(kvWrites) has resolved: the run returns its NormalizedCalendar.
FinishRun ==
    /\ pc = "await"
    /\ kvWrites = {}
    /\ pc' = "done"
    /\ UNCHANGED <<kv, now, runs, feed, tz, idx, currentKeys, normalizedEvents,
                   kvWrites, prevSnapshot, kvAtStart, emittedBefore, lastCancel, prevRun>>
    /\ UNCHANGED pure
    /\ UNCHANGED handler

Next ==
    \/ \E f \in Feeds : BeginRun(f)
    \/ ProcessEvent
    \/ LandWrite
    \/ LoadSnapshot
    \/ CancelStep
    \/ SaveSnapshotKeys
    \/ FinishRun

Spec == Init /\ [][Next]_vars

-----------------------------------------------------------------------------
(* The VTIMEZONE pass of serializeCalendar (serialize.ts) *)

\* First index of `pat` as a substring of `text` (0: none).
FindSub(text, pat) ==
    LET hits == {i \in 1..(Len(text) - Len(pat) + 1) :
                    SubSeq(text, i, i + Len(pat) - 1) = pat}
    IN  IF hits = {} THEN 0 ELSE CHOOSE i \in hits : \A j \in hits : i <= j

\* tzBlock.match(/TZID:([^\r\n]+)/): the captured group, <<>> when no match.
TzidMatch(tzBlock) ==
    LET hits == {i \in 1..(Len(tzBlock) - 2) :
                    tzBlock[i] = "TZID" /\ tzBlock[i + 1] = ":" /\ tzBlock[i + 2] # "\r\n"}
    IN  IF hits = {} THEN <<>>
        ELSE LET at == CHOOSE i \in hits : \A j \in hits : i <= j
                 ends == {j \in (at + 2)..Len(tzBlock) : tzBlock[j] = "\r\n"}
                 stop == IF ends = {} THEN Len(tzBlock) + 1
                         ELSE CHOOSE j \in ends : \A k \in ends : j <= k
             IN  SubSeq(tzBlock, at + 2, stop - 1)

\* String.prototype.replace with a string pattern: the first occurrence only.
ReplaceFirst(text, pat, by) ==
    IF FindSub(text, pat) = 0 THEN text
    ELSE SubSeq(text, 1, FindSub(text, pat) - 1) \o by
             \o SubSeq(text, FindSub(text, pat) + Len(pat), Len(text))

\* What serializeCalendar pushes for one block of parsed.timezoneBlocks.
serializeTimezoneBlock(tzBlock) ==
    LET m == TzidMatch(tzBlock) IN
    IF m # <<>> /\ normalizeTimezone(m) # m
    THEN ReplaceFirst(tzBlock, m, normalizeTimezone(m))
    ELSE tzBlock

-----------------------------------------------------------------------------
(* The emitted lines of one event, computed on their own *)

StartUtc == <<"DTSTART", ":", "20240601", "T", "090000", "Z">>
StartDate == <<"DTSTART", ":", "20240601">>
StartBerlin == <<"DTSTART", ";", "TZID", "=", "Europe/Berlin", ":", "20240601", "T", "090000">>
End1 == <<"DTEND", ":", "20240601", "T", "100000">>
Created1 == <<"CREATED", ":", "20240601", "T", "120000">>
RidPacific == <<"RECURRENCE-ID", ";", "TZID", "=", "Pacific Standard Time", ":",
                "20240608", "T", "090000">>
Exdate1 == <<"EXDATE", ":", "20240615", "T", "090000", ",", "20240608", "T", "090000">>
ExdateCentral == <<"EXDATE", ";", "TZID", "=", "Central Standard Time", ":",
                   "20240608", "T", "090000">>
ExdateDate == <<"EXDATE", ":", "20240608">>
Rdate1 == <<"RDATE", ":", "20240615", "T", "090000">>
XAlt == <<"X-ALT-START", ";", "TZID", "=", "Eastern Standard Time", ":",
          "20240601", "T", "090000">>

LineStarts == {Start1, Start1Tz, StartUtc, StartDate, StartBerlin}

LineExtras ==
    { <<>>, <<End1>>, <<Created1>>, <<Rid1>>, <<RidPacific>>, <<Exdate1>>,
      <<ExdateCentral>>, <<ExdateDate>>, <<Rdate1>>, <<XAlt>> }

\* The lines of a VTIMEZONE block joined by CRLF, as parseIcs keeps them.
TzBlock(lines) ==
    JoinWith(<< <<"BEGIN", ":", "VTIMEZONE">> >> \o lines
                 \o << <<"END", ":", "VTIMEZONE">> >>, <<"\r\n">>)

TimezoneBlocks ==
    { TzBlock(<< <<"TZID", ":", "Eastern Standard Time">> >>),
      TzBlock(<< <<"TZID", ":", "Europe/Berlin">> >>),
      TzBlock(<< <<"X-LIC-LOCATION", ":", "Eastern Standard Time">>,
                 <<"TZID", ":", "Eastern Standard Time">> >>) }

\* The tenant's configured zone; <<>> when neither config nor environment has one.
LineZones == { <<>>, <<"America/Chicago">>, <<"Pacific Standard Time">> }

LineInputs ==
    { [event |-> ParseEvent(<<UidX, Stamp1, d, SumM>> \o x), zone |-> z, block |-> b] :
        d \in LineStarts, x \in LineExtras, z \in LineZones, b \in TimezoneBlocks }

InitLines ==
    /\ ReconInit
    /\ HandlerInit
    /\ arg \in LineInputs
    /\ res = NoValue
    /\ stage = "input"

\* normalizeEventLines(event, stableUid, sequence, effectiveTimezone)
NormalizeLines ==
    /\ stage = "input"
    /\ res' = normalizeEventLines(arg.event, computeStableUid(arg.event), 0, arg.zone)
    /\ stage' = "normalizeEventLines"
    /\ UNCHANGED <<arg, recon, handler>>

\* createCancelledEventFromState for the event's key, its stored sequence being 0.
CancelLines ==
    /\ stage = "input"
    /\ res' = CancelledOf(EventKey(arg.event),
                          [sequence |-> 0, contentHash |-> <<"h">>, lastSeen |-> 0],
                          1).lines
    /\ stage' = "createCancelledEventLines"
    /\ UNCHANGED <<arg, recon, handler>>

\* The loop of serializeCalendar over parsed.timezoneBlocks, for one block.
SerializeTimezone ==
    /\ stage = "input"
    /\ res' = serializeTimezoneBlock(arg.block)
    /\ stage' = "serializeCalendar"
    /\ UNCHANGED <<arg, recon, handler>>

NextLines ==
    \/ NormalizeLines
    \/ CancelLines
    \/ SerializeTimezone

SpecLines == InitLines /\ [][NextLines]_vars

-----------------------------------------------------------------------------
(* computeStableUid, computed on its own for two events *)

UidSummaries == { <<"M">>, <<"M2">>, <<"M", "|", "O">> }

\* <<>>: the event has no ORGANIZER.
UidOrganizers == { <<>>, <<"O">>, <<"Y">>, <<"O", "|", "Y">> }

OrganizerLines(o) == IF o = <<>> THEN <<>> ELSE << <<"ORGANIZER", ":">> \o o >>

\* The same four values in two shapes: in one order of properties, and in
\* another with parameters and further properties.
UidEvents ==
    { ParseEvent(<<UidX, Stamp1, Start1, <<"SUMMARY", ":">> \o m>> \o OrganizerLines(o)) :
        m \in UidSummaries, o \in UidOrganizers }
    \cup
    { ParseEvent(OrganizerLines(o) \o
                 << Loc1, <<"SUMMARY", ";", "LANGUAGE", "=", "en", ":">> \o m,
                    <<"DTSTART", ";", "TZID", "=", "Europe/Berlin", ":",
                      "20240601", "T", "090000">>,
                    Stamp2, UidX >>) :
        m \in UidSummaries, o \in UidOrganizers }

InitUid ==
    /\ ReconInit
    /\ HandlerInit
    /\ arg \in UidEvents \X UidEvents
    /\ res = NoValue
    /\ stage = "input"

ComputeUids ==
    /\ stage = "input"
    /\ res' = <<computeStableUid(arg[1]), computeStableUid(arg[2])>>
    /\ stage' = "computeStableUid"
    /\ UNCHANGED <<arg, recon, handler>>

NextUid == ComputeUids

SpecUid == InitUid /\ [][NextUid]_vars

-----------------------------------------------------------------------------
(* Properties of the reconciler, stated on Spec *)

EventKeysOfStore == {k \in DOMAIN kv : k[2] = "event"}

StateAtStart(eventKey) == getEventState(kvAtStart, eventKey, TenantHash)

SnapshotNow == getPreviousSnapshot(kv, TenantHash)

SnapshotKeysAtStart ==
    IF getPreviousSnapshot(kvAtStart, TenantHash) = NoValue THEN {}
    ELSE Range(getPreviousSnapshot(kvAtStart, TenantHash).eventKeys)

CancelledKeys(out) == {out[i].eventKey : i \in {j \in 1..Len(out) : out[j].cancelled}}

\* The entry is a VEVENT with STATUS:CANCELLED whose UID is the key's stable-uid
\* followed by @calproxy.
IsCancellationOf(entry, eventKey) ==
    /\ entry.eventKey = eventKey
    /\ <<"STATUS", ":", "CANCELLED">> \in Range(entry.lines)
    /\ <<"UID", ":">> \o SplitKey(eventKey)[1] \o <<"@calproxy">> \in Range(entry.lines)

\* The properties of an event other than DTSTAMP, LAST-MODIFIED and SEQUENCE,
\* with their parameters, in the order upstream sent them.
NonVolatile(event) == SelectSeq(event.properties, LAMBDA p : p.name \notin VolatileNames)

Reverse(s) == [i \in 1..Len(s) |-> s[Len(s) + 1 - i]]

Rotate(s, n) == [i \in 1..Len(s) |-> s[((i + n - 1) % Len(s)) + 1]]

\* The event with its properties reversed, and rotated by every offset.
Reorderings(event) ==
    {[event EXCEPT !.properties = Reverse(event.properties)]}
    \cup {[event EXCEPT !.properties = Rotate(event.properties, n)] :
             n \in 1..Len(event.properties)}

EmittedNeverLower ==
    pc = "done" =>
        \A i \in 1..Len(normalizedEvents) :
            normalizedEvents[i].eventKey \in DOMAIN emittedBefore =>
                normalizedEvents[i].sequence >= emittedBefore[normalizedEvents[i].eventKey]

StoredNeverLower ==
    \A k \in EventKeysOfStore : kv'[k].sequence >= kv[k].sequence

\* C1: over runs of one tenant executed one after another, with every store
\* operation succeeding, the SEQUENCE a run emits for an event-key (live or
\* cancelled) is never lower than one emitted for that key by an earlier run,
\* and the sequence of the key's state record never decreases.
SequenceMonotonic == []EmittedNeverLower /\ [][StoredNeverLower]_vars

\* C2: for each event parsed in a run the emitted sequence is 0 when the key has
\* no state record, the stored sequence when the stored content-hash equals the
\* event's, the stored sequence plus one when it differs; and when the run
\* returns the key's state record holds the emitted sequence and the event's
\* content-hash.
PerEventTransition ==
    pc = "done" =>
        \A i \in 1..Len(feed) :
            LET old == StateAtStart(EventKey(feed[i]))
                cur == getEventState(kv, EventKey(feed[i]), TenantHash)
                h == computeContentHash(feed[i])
                s == normalizedEvents[i].sequence
            IN  /\ old = NoValue => s = 0
                /\ (old # NoValue /\ old.contentHash = h) => s = old.sequence
                /\ (old # NoValue /\ old.contentHash # h) => s = old.sequence + 1
                /\ cur # NoValue
                /\ cur.sequence = s
                /\ cur.contentHash = h

\* C3: for every event-key of the previous snapshot that is absent from the
\* keys of the current parse, the output of the run holds exactly one VEVENT
\* with STATUS:CANCELLED and UID <stable-uid>@calproxy, and its SEQUENCE is the
\* sequence stored for the key before the run, plus one.
ExactlyOneCancellation ==
    pc = "done" =>
        \A k \in SnapshotKeysAtStart \ Range(currentKeys) :
            /\ Cardinality({i \in 1..Len(normalizedEvents) :
                               IsCancellationOf(normalizedEvents[i], k)}) = 1
            /\ \A i \in 1..Len(normalizedEvents) :
                  IsCancellationOf(normalizedEvents[i], k) =>
                      normalizedEvents[i].sequence = StateAtStart(k).sequence + 1

VolatileIndependence ==
    (pc = "done" /\ prevRun # NoValue) =>
        /\ \A i \in 1..Len(prevRun.feed), j \in 1..Len(feed) :
              NonVolatile(prevRun.feed[i]) = NonVolatile(feed[j]) =>
                  /\ computeContentHash(prevRun.feed[i]) = computeContentHash(feed[j])
                  /\ normalizedEvents[j].sequence = prevRun.out[i].sequence
        /\ \A j \in 1..Len(feed) : \A e \in Reorderings(feed[j]) :
              computeContentHash(e) = computeContentHash(feed[j])

\* C7: when an event of one event-key is observed in two consecutive runs and
\* anything in it other than DTSTAMP, LAST-MODIFIED and SEQUENCE differs (a
\* property value or a property parameter), the second run emits a SEQUENCE
\* strictly greater than the first.
ContentChangeIncrements ==
    (pc = "done" /\ prevRun # NoValue) =>
        \A i \in 1..Len(prevRun.feed), j \in 1..Len(feed) :
            (/\ EventKey(prevRun.feed[i]) = EventKey(feed[j])
             /\ NonVolatile(prevRun.feed[i]) # NonVolatile(feed[j])) =>
                normalizedEvents[j].sequence > prevRun.out[i].sequence

-----------------------------------------------------------------------------
(* Properties of computeStableUid, stated on SpecUid *)

\* (DTSTART value, SUMMARY value, ORGANIZER value or empty, upstream UID)
Tuple4(event) ==
    << ValueOrEmpty(getProperty(event, <<"DTSTART">>)),
       ValueOrEmpty(getProperty(event, <<"SUMMARY">>)),
       ValueOrEmpty(getProperty(event, <<"ORGANIZER">>)),
       event.uid >>

\* C8: two events with the same 4-tuple get the same stable-uid, whatever the
\* order of their properties, their parameters and their other properties; two
\* events with different 4-tuples give the hash different strings.
StableUidOfTuple ==
    stage = "computeStableUid" =>
        /\ Tuple4(arg[1]) = Tuple4(arg[2]) => res[1] = res[2]
        /\ Tuple4(arg[1]) # Tuple4(arg[2]) => UidComponents(arg[1]) # UidComponents(arg[2])

-----------------------------------------------------------------------------
(* Properties of the emitted lines, stated on SpecLines *)

\* The TZID parameter of an emitted line (<<>>: none).
LineTzid(line) ==
    IF parseProperty(line) = NoValue THEN <<>>
    ELSE ParamGet(parseProperty(line).params, <<"TZID">>)

LineName(line) == IF parseProperty(line) = NoValue THEN <<>> ELSE parseProperty(line).name

LineValue(line) == IF parseProperty(line) = NoValue THEN <<>> ELSE parseProperty(line).value

\* The TZID parameters upstream gave to the properties of that name.
UpstreamTzids(event, name) ==
    {ParamGet(p.params, <<"TZID">>) : p \in Range(PropsNamed(event, name))} \ {<<>>}

\* C9: no TZID= parameter of a line of a VEVENT and no TZID: line of a
\* VTIMEZONE block carries a key of the Windows-to-IANA mapping; an identifier
\* that is not a key is passed through unchanged.
NoWindowsTzid ==
    /\ stage \in {"normalizeEventLines", "createCancelledEventLines"} =>
          \A i \in 1..Len(res) : LineTzid(res[i]) \notin MsTimezoneNames
    /\ stage = "normalizeEventLines" =>
          \A i \in 1..Len(res) :
              \A t \in UpstreamTzids(arg.event, LineName(res[i])) \ MsTimezoneNames :
                  LineTzid(res[i]) \in {<<>>, t}
    /\ stage = "serializeCalendar" =>
          /\ \A l \in Range(Split(res, "\r\n")) :
                (Len(l) >= 2 /\ l[1] = "TZID" /\ l[2] = ":") =>
                    SubSeq(l, 3, Len(l)) \notin MsTimezoneNames
          /\ TzidMatch(arg.block) \notin MsTimezoneNames => res = arg.block

\* A value with a T and no trailing Z, or a list with such an entry.
IsFloating(value) ==
    \E v \in Range(Split(value, ",")) :
        Len(v) > 0 /\ Includes(v, "T") /\ v[Len(v)] # "Z"

DateTimeNames ==
    { <<"DTSTART">>, <<"DTEND">>, <<"RECURRENCE-ID">>, <<"EXDATE">>, <<"RDATE">>,
      <<"DTSTAMP">>, <<"CREATED">>, <<"LAST-MODIFIED">> }

\* The zones the line of a floating value may name: the property's own TZIDs
\* mapped to IANA when it has one; otherwise UTC for DTSTAMP, CREATED and
\* LAST-MODIFIED and the tenant's default zone for the others.
ZonesFor(event, name, zone) ==
    IF UpstreamTzids(event, name) # {}
    THEN {normalizeTimezone(t) : t \in UpstreamTzids(event, name)}
    ELSE IF name \in {<<"DTSTAMP">>, <<"CREATED">>, <<"LAST-MODIFIED">>} THEN {<<"UTC">>}
    ELSE IF zone = <<>> THEN {DEFAULT_TIMEZONE}
    ELSE {zone, normalizeTimezone(zone)}

\* C10: every floating datetime of an emitted VEVENT, normalized event or
\* synthesized cancellation, carries a TZID parameter: the property's own
\* mapped to IANA, otherwise the tenant's default zone (UTC for DTSTAMP,
\* CREATED, LAST-MODIFIED).
FloatingCarriesTzid ==
    /\ stage = "normalizeEventLines" =>
          \A i \in 1..Len(res) :
              (LineName(res[i]) \in DateTimeNames /\ IsFloating(LineValue(res[i]))) =>
                  LineTzid(res[i]) \in ZonesFor(arg.event, LineName(res[i]), arg.zone)
    /\ stage = "createCancelledEventLines" =>
          \A i \in 1..Len(res) :
              (LineName(res[i]) \in DateTimeNames /\ IsFloating(LineValue(res[i]))) =>
                  LineTzid(res[i]) # <<>>

-----------------------------------------------------------------------------
(* sortEvents (types.ts) and the event pass of serializeCalendar *)

\* a.stableUid.localeCompare(b.stableUid) < 0; for exceptions the comparison
\* goes on to (a.recurrenceId || '').localeCompare(b.recurrenceId || '').
EventBefore(a, b, exceptions) ==
    \/ StrLess(a.stableUid, b.stableUid)
    \/ /\ exceptions
       /\ a.stableUid = b.stableUid
       /\ StrLess(a.recurrenceId, b.recurrenceId)

RECURSIVE InsertEvent(_, _, _)
InsertEvent(x, sorted, exceptions) ==
    IF Len(sorted) = 0 THEN <<x>>
    ELSE IF ~EventBefore(sorted[1], x, exceptions) THEN <<x>> \o sorted
    ELSE <<sorted[1]>> \o InsertEvent(x, Tail(sorted), exceptions)

\* Array.prototype.sort with the comparator of sortEvents (a stable sort).
RECURSIVE SortEventsBy(_, _)
SortEventsBy(events, exceptions) ==
    IF Len(events) = 0 THEN <<>>
    ELSE InsertEvent(events[1], SortEventsBy(Tail(events), exceptions), exceptions)

\* A variant of sortEvents that separates the two classes and sorts neither.
sortEventsUnsorted(events) ==
    SelectSeq(events, LAMBDA e : ~e.isException)
        \o SelectSeq(events, LAMBDA e : e.isException)

sortEvents(events) ==
    SortEventsBy(SelectSeq(events, LAMBDA e : ~e.isException), FALSE)
        \o SortEventsBy(SelectSeq(events, LAMBDA e : e.isException), TRUE)

\* foldLine for a line of at most 75 characters, which every line of the model
\* is: the line is returned as it is.
foldLine(line) == line

RECURSIVE FoldedLines(_)
FoldedLines(lines) ==
    IF Len(lines) = 0 THEN <<>>
    ELSE <<foldLine(lines[1])>> \o FoldedLines(Tail(lines))

\* serializeCalendar: the lines pushed for the events, in output order.
RECURSIVE LinesOfEvents(_)
LinesOfEvents(events) ==
    IF Len(events) = 0 THEN <<>>
    ELSE FoldedLines(events[1].lines) \o LinesOfEvents(Tail(events))

serializeEvents(events) == LinesOfEvents(sortEvents(events))

SortUids == { <<"0a">>, <<"a0">>, <<"b7">> }

SortRecurrenceIds ==
    { <<"20240601", "T", "090000">>, <<"20240608", "T", "090000">>, <<"20240608">> }

\* A NormalizedEvent as normalizeCalendar pushes it, with its UID line.
SortEvent(uid, rid, isCancelled) ==
    [stableUid |-> uid,
     sequence |-> 0,
     isException |-> rid # <<>>,
     recurrenceId |-> rid,
     lines |-> << <<"UID", ":">> \o uid \o <<"@calproxy">> \o rid >>,
     eventKey |-> IF rid # <<>> THEN uid \o <<"#">> \o rid ELSE uid,
     cancelled |-> isCancelled]

SortPool ==
    { SortEvent(u, <<>>, c) : u \in SortUids, c \in BOOLEAN }
    \cup { SortEvent(u, r, FALSE) : u \in SortUids \ {<<"b7">>}, r \in SortRecurrenceIds }

\* The longest normalizedEvents array that is sorted on its own.
MaxSort == 3

InitSort ==
    /\ ReconInit
    /\ HandlerInit
    /\ arg \in UNION {[1..n -> SortPool] : n \in 0..MaxSort}
    /\ res = NoValue
    /\ stage = "input"

SerializeEvents ==
    /\ stage = "input"
    /\ res' = [sorted |-> sortEvents(arg), lines |-> serializeEvents(arg)]
    /\ stage' = "serializeCalendar"
    /\ UNCHANGED <<arg, recon, handler>>

NextSort == SerializeEvents

SpecSort == InitSort /\ [][NextSort]_vars

-----------------------------------------------------------------------------
(* Properties of the event order, stated on SpecSort *)

\* a is not after b in the order of (stable-uid, recurrence-id).
NotAfter(a, b) ==
    \/ StrLess(a.stableUid, b.stableUid)
    \/ /\ a.stableUid = b.stableUid
       /\ ~StrLess(b.recurrenceId, a.recurrenceId)

\* C11: in the serialized output every event without a recurrence-id precedes
\* every event with one; the events without are in ascending stable-uid order,
\* those with one in ascending (stable-uid, recurrence-id) order; cancellations
\* are ordered with the others; and the lines are written in that order.
EventOrder ==
    stage = "serializeCalendar" =>
        /\ Len(res.sorted) = Len(arg)
        /\ \A e \in Range(arg) :
              Cardinality({i \in 1..Len(arg) : arg[i] = e})
                  = Cardinality({i \in 1..Len(res.sorted) : res.sorted[i] = e})
        /\ \A i, j \in 1..Len(res.sorted) :
              i < j =>
                  /\ ~(res.sorted[i].isException /\ ~res.sorted[j].isException)
                  /\ res.sorted[i].isException = res.sorted[j].isException =>
                        NotAfter(res.sorted[i], res.sorted[j])
        /\ res.lines = [i \in 1..Len(res.sorted) |-> res.sorted[i].lines[1]]

\* Three events were given out of order (an exception first, then two events
\* without recurrence-id in descending order, one of them a cancellation).
SortedOutOfOrderInput ==
    /\ stage = "serializeCalendar"
    /\ Len(arg) = 3
    /\ arg[1].isException
    /\ ~arg[2].isException
    /\ ~arg[3].isException
    /\ StrLess(arg[3].stableUid, arg[2].stableUid)
    /\ arg[3].cancelled

-----------------------------------------------------------------------------
(* parseIcs (parser.ts) on a whole upstream body *)

\* ics.split(/\r?\n/)
RECURSIVE SplitLines(_)
SplitLines(ics) ==
    LET ends == {i \in 1..Len(ics) : ics[i] \in {"\r\n", "\n"}} IN
    IF ends = {} THEN <<ics>>
    ELSE LET i == CHOOSE e \in ends : \A j \in ends : e <= j
         IN  <<SubSeq(ics, 1, i - 1)>> \o SplitLines(SubSeq(ics, i + 1, Len(ics)))

\* The loop of unfoldLines: a line that starts with a space or a tab continues
\* the line before it.
RECURSIVE Unfold(_, _)
Unfold(rawLines, unfolded) ==
    IF Len(rawLines) = 0 THEN unfolded
    ELSE LET line == rawLines[1] IN
         IF Len(line) > 0 /\ line[1] \in {" ", "\t"} /\ Len(unfolded) > 0
         THEN Unfold(Tail(rawLines),
                     [unfolded EXCEPT ![Len(unfolded)] = @ \o Tail(line)])
         ELSE Unfold(Tail(rawLines), Append(unfolded, line))

unfoldLines(ics) == Unfold(SplitLines(ics), <<>>)

\* The locals of parseIcs before its loop.
ParserStart ==
    [headerLines |-> <<>>, timezoneBlocks |-> <<>>, events |-> <<>>, footerLines |-> <<>>,
     inTimezone |-> FALSE, inEvent |-> FALSE, currentTimezoneLines |-> <<>>,
     currentEventProps |-> <<>>, currentUid |-> <<>>, headerDone |-> FALSE]

\* One iteration of `for (const line of lines)` in parseIcs.
ParseLine(line, st) ==
    IF line = <<"BEGIN", ":", "VTIMEZONE">>
    THEN [st EXCEPT !.inTimezone = TRUE, !.currentTimezoneLines = <<line>>]
    ELSE IF st.inTimezone
    THEN IF line = <<"END", ":", "VTIMEZONE">>
         THEN [st EXCEPT !.currentTimezoneLines = Append(@, line),
                         !.timezoneBlocks =
                             Append(@, JoinWith(Append(st.currentTimezoneLines, line),
                                                <<"\r\n">>)),
                         !.inTimezone = FALSE]
         ELSE [st EXCEPT !.currentTimezoneLines = Append(@, line)]
    ELSE IF line = <<"BEGIN", ":", "VEVENT">>
    THEN [st EXCEPT !.headerDone = TRUE, !.inEvent = TRUE,
                    !.currentEventProps = <<>>, !.currentUid = <<>>]
    ELSE IF st.inEvent
    THEN LET prop == parseProperty(line)
             props == IF prop = NoValue THEN st.currentEventProps
                      ELSE Append(st.currentEventProps, prop)
             uid == IF prop # NoValue /\ prop.name = <<"UID">> THEN prop.value
                    ELSE st.currentUid
         IN  IF line = <<"END", ":", "VEVENT">>
             THEN [st EXCEPT !.currentEventProps = props, !.currentUid = uid,
                             !.events = Append(@, [uid |-> uid, properties |-> props]),
                             !.inEvent = FALSE]
             ELSE [st EXCEPT !.currentEventProps = props, !.currentUid = uid]
    ELSE IF ~st.headerDone
    THEN [st EXCEPT !.headerLines = Append(@, line)]
    ELSE IF line = <<"END", ":", "VCALENDAR">>
    THEN [st EXCEPT !.footerLines = Append(@, line)]
    ELSE st

RECURSIVE ParseLines(_, _)
ParseLines(lines, st) ==
    IF Len(lines) = 0 THEN st ELSE ParseLines(Tail(lines), ParseLine(lines[1], st))

\* parseIcs: { headerLines, timezoneBlocks, events, footerLines }
parseIcs(ics) ==
    LET st == ParseLines(unfoldLines(ics), ParserStart)
    IN  [headerLines |-> st.headerLines, timezoneBlocks |-> st.timezoneBlocks,
         events |-> st.events, footerLines |-> st.footerLines]

-----------------------------------------------------------------------------
(* serializeCalendar (serialize.ts) on a whole NormalizedCalendar *)

\* The template literals of generateVtimezone: their lines are separated by
\* the line feeds of the source file.
ZoneRule(month, byday) ==
    <<"RRULE", ":", "FREQ", "=", "YEARLY", ";", "BYMONTH", "=", month, ";",
      "BYDAY", "=", byday>>

DstZone(tzid, standardOffset, daylightOffset, standardName, daylightName) ==
    JoinWith(<< <<"BEGIN", ":", "VTIMEZONE">>,
                <<"TZID", ":">> \o tzid,
                <<"BEGIN", ":", "STANDARD">>,
                <<"DTSTART", ":", "19701101", "T", "020000">>,
                ZoneRule("11", "1SU"),
                <<"TZOFFSETFROM", ":", daylightOffset>>,
                <<"TZOFFSETTO", ":", standardOffset>>,
                <<"TZNAME", ":", standardName>>,
                <<"END", ":", "STANDARD">>,
                <<"BEGIN", ":", "DAYLIGHT">>,
                <<"DTSTART", ":", "19700308", "T", "020000">>,
                ZoneRule("3", "2SU"),
                <<"TZOFFSETFROM", ":", standardOffset>>,
                <<"TZOFFSETTO", ":", daylightOffset>>,
                <<"TZNAME", ":", daylightName>>,
                <<"END", ":", "DAYLIGHT">>,
                <<"END", ":", "VTIMEZONE">> >>, <<"\n">>)

generateVtimezone(tzid) ==
    IF tzid \in { <<"America/Indiana/Indianapolis">>, <<"America/New_York">> }
    THEN DstZone(tzid, "-0500", "-0400", "EST", "EDT")
    ELSE IF tzid = <<"America/Chicago">>
    THEN DstZone(tzid, "-0600", "-0500", "CST", "CDT")
    ELSE IF tzid = <<"America/Los_Angeles">>
    THEN DstZone(tzid, "-0800", "-0700", "PST", "PDT")
    ELSE JoinWith(<< <<"BEGIN", ":", "VTIMEZONE">>,
                     <<"TZID", ":">> \o tzid,
                     <<"BEGIN", ":", "STANDARD">>,
                     <<"DTSTART", ":", "19700101", "T", "000000">>,
                     <<"TZOFFSETFROM", ":", "+0000">>,
                     <<"TZOFFSETTO", ":", "+0000">>,
                     <<"TZNAME", ":">> \o tzid,
                     <<"END", ":", "STANDARD">>,
                     <<"END", ":", "VTIMEZONE">> >>, <<"\n">>)

\* serializeCalendar: the strings pushed to `output`, joined by CRLF.
serializeCalendar(parsed, events, defaultTz) ==
    LET zone == IF defaultTz # <<>> THEN defaultTz ELSE DEFAULT_TIMEZONE
        hasZone == \E i \in 1..Len(parsed.timezoneBlocks) :
                       FindSub(parsed.timezoneBlocks[i], <<"TZID", ":">> \o zone) # 0
    IN  JoinWith(parsed.headerLines
                   \o (IF hasZone THEN <<>> ELSE <<generateVtimezone(zone)>>)
                   \o [i \in 1..Len(parsed.timezoneBlocks) |->
                          serializeTimezoneBlock(parsed.timezoneBlocks[i])]
                   \o serializeEvents(events)
                   \o parsed.footerLines,
                 <<"\r\n">>)

-----------------------------------------------------------------------------
(* handleCalendarRequest (index.ts): one calendar request after another *)

\* Calendar requests in one behaviour.
MaxRequests == 3

\* The digest of the upstream bytes and the ETag of a body: SHA-256 in hex.
computeHash(data) == Sha256Hex(data)

computeEtag(content) == <<"\"">> \o Sha256Hex(content) \o <<"\"">>

\* A string where null can stand as well: a stored value, a header, a body.
Str(s) == [text |-> s]

getLastGoodSnapshot(store, prefix) == KvGet(store, KvKey(prefix, "snapshot", <<"latest">>))

getUpstreamHash(store, prefix) == KvGet(store, KvKey(prefix, "snapshot", <<"upstream_hash">>))

\* `tenant:${hash}`
TenantKey(hash) == KvKey("", "tenant", <<hash>>)

getTenantConfig(store, hash) == KvGet(store, TenantKey(hash))

\* createIcsResponse(content, await computeEtag(content))
createIcsResponse(content) ==
    [status |-> 200, body |-> Str(content), etag |-> Str(computeEtag(content))]

\* new Response(null, { status: 304, headers: { ETag: etag } })
NotModified(etag) == [status |-> 304, body |-> NoValue, etag |-> Str(etag)]

\* new Response(message, { status })
ErrorResponse(status, message) ==
    [status |-> status, body |-> Str(<<message>>), etag |-> NoValue]

CalBegin == <<"BEGIN", ":", "VCALENDAR">>
CalVersion == <<"VERSION", ":", "2.0">>
CalEnd == <<"END", ":", "VCALENDAR">>
EventBegin == <<"BEGIN", ":", "VEVENT">>
EventEnd == <<"END", ":", "VEVENT">>

\* An upstream calendar of the given VEVENT bodies.
RawIcs(bodies) ==
    JoinWith(<<CalBegin, CalVersion>>
                 \o [i \in 1..Len(bodies) |->
                        JoinWith(<<EventBegin>> \o bodies[i] \o <<EventEnd>>, <<"\r\n">>)]
                 \o <<CalEnd>>, <<"\r\n">>)

BodyM == RawIcs(<< <<UidX, Stamp1, Start1, SumM, OrgO>> >>)
BodyM2 == RawIcs(<< <<UidX, Stamp1, Start1, SumM2, OrgO>> >>)
BodyEmpty == RawIcs(<<>>)
BodyHtml == << "<html>" >>

\* What the fetch of config.sourceUrl can give: a network failure, an answer
\* outside 2xx below and above 400, or a 2xx answer with one of the bodies.
UpstreamResults ==
    { [failed |-> TRUE, status |-> 0, body |-> <<>>] }
        \cup { [failed |-> FALSE, status |-> st, body |-> <<>>] : st \in {304, 503} }
        \cup { [failed |-> FALSE, status |-> 200, body |-> b] :
                 b \in {BodyM, BodyM2, BodyEmpty, BodyHtml} }

\* response.ok
Ok(upstream) == ~upstream.failed /\ upstream.status >= 200 /\ upstream.status <= 299

\* The ETag of the first output the proxy produces for a one-event feed: a
\* client that was served it once may present it at any later time.
FirstEtag(body, zone) ==
    computeEtag(serializeCalendar(parseIcs(body),
                                  <<NormalizedOf(parseIcs(body).events[1], 0, zone)>>,
                                  zone))

\* The If-None-Match header of a request: none, the ETag of the last answer, or
\* the ETag a client holds from the first output of a feed.
IfNoneMatchValues ==
    {NoValue}
        \cup (IF response # NoValue /\ response.etag # NoValue THEN {response.etag} ELSE {})
        \cup {Str(FirstEtag(BodyM, tz))}

\* The tenant is registered: /register has stored its config.
InitRequest ==
    /\ kv = [k \in {TenantKey(TenantHash)} |->
                [sourceUrl |-> <<"https://upstream/calendar.ics">>, createdAt |-> 0]]
    /\ now = 0
    /\ runs = 0
    /\ pc = "idle"
    /\ feed = <<>>
    /\ tz \in TenantZones
    /\ idx = 1
    /\ currentKeys = <<>>
    /\ normalizedEvents = <<>>
    /\ kvWrites = {}
    /\ prevSnapshot = NoValue
    /\ kvAtStart = kv
    /\ emittedBefore = EmptyMap
    /\ lastCancel = EmptyMap
    /\ prevRun = NoValue
    /\ HandlerInit
    /\ arg = NoValue
    /\ res = NoValue
    /\ stage = "none"

\* The request handler returns `r`.
Answer(r, path) ==
    /\ response' = r
    /\ request' = [request EXCEPT !.at = "responded", !.path = path]

\* A calendar request arrives: const config = await getTenantConfig(...).
HandleRequest ==
    /\ request.at \in {"none", "responded"}
    /\ request.id < MaxRequests
    /\ \E header \in IfNoneMatchValues :
          LET r == [NoRequest EXCEPT !.id = request.id + 1, !.ifNoneMatch = header,
                                     !.at = "fetch", !.alone = (background = {}),
                                     !.produced = request.produced]
          IN  IF getTenantConfig(kv, TenantHash) = NoValue
              THEN /\ response' = ErrorResponse(404, "Calendar not found")
                   /\ request' = [r EXCEPT !.at = "responded", !.path = "not found"]
              ELSE /\ request' = r
                   /\ UNCHANGED response
    /\ UNCHANGED <<recon, pure, background>>

\* const response = await fetch(config.sourceUrl, ...), and the checks of the
\* body up to the next read of the store.
FetchUpstream ==
    /\ request.at = "fetch"
    /\ \E u \in UpstreamResults :
          IF u.failed
          THEN /\ request' = [request EXCEPT !.upstream = u, !.at = "catch"]
               /\ UNCHANGED response
          ELSE IF ~Ok(u)
          THEN /\ request' = [request EXCEPT !.upstream = u, !.at = "not ok"]
               /\ UNCHANGED response
          ELSE IF FindSub(u.body, CalBegin) = 0
          THEN /\ response' = ErrorResponse(502, "Invalid ICS: missing VCALENDAR")
               /\ request' = [request EXCEPT !.upstream = u, !.at = "responded",
                                             !.path = "invalid"]
          ELSE IF FindSub(u.body, EventBegin) = 0
          THEN /\ request' = [request EXCEPT !.upstream = u, !.at = "empty"]
               /\ UNCHANGED response
          ELSE /\ request' = [request EXCEPT !.upstream = u, !.at = "hash"]
               /\ UNCHANGED response
    /\ UNCHANGED <<recon, pure, background>>

\* A variant of NotOkFallback that hands the snapshot it serves to saveSnapshot
\* together with the hash of the failed answer's body.
NotOkFallbackSaving ==
    /\ request.at = "not ok"
    /\ LET lastGood == getLastGoodSnapshot(kv, TenantHash) IN
       IF lastGood # NoValue /\ request.upstream.status >= 400
       THEN /\ Answer(createIcsResponse(lastGood.text), "not ok, snapshot")
            /\ background' = background \cup
                   {[content |-> lastGood.text,
                     upstreamHash |-> computeHash(request.upstream.body),
                     step |-> "latest", of |-> request.id]}
       ELSE /\ Answer(ErrorResponse(502, "Upstream calendar unavailable"), "not ok, 502")
            /\ UNCHANGED background
    /\ UNCHANGED <<recon, pure>>

\* if (!response.ok): the last good snapshot when the status is 400 or more,
\* 502 otherwise.
NotOkFallback ==
    /\ request.at = "not ok"
    /\ LET lastGood == getLastGoodSnapshot(kv, TenantHash) IN
       IF lastGood # NoValue /\ request.upstream.status >= 400
       THEN Answer(createIcsResponse(lastGood.text), "not ok, snapshot")
       ELSE Answer(ErrorResponse(502, "Upstream calendar unavailable"), "not ok, 502")
    /\ UNCHANGED <<recon, pure, background>>

\* A variant of EmptyFallback that goes on to parse the body whether or not a
\* snapshot is stored.
EmptyFallbackParsing ==
    /\ request.at = "empty"
    /\ request' = [request EXCEPT !.at = "hash"]
    /\ UNCHANGED <<recon, pure, response, background>>

\* if (!rawIcs.includes('BEGIN:VEVENT')): the last good snapshot when there is
\* one, the rest of the handler otherwise.
EmptyFallback ==
    /\ request.at = "empty"
    /\ LET lastGood == getLastGoodSnapshot(kv, TenantHash) IN
       IF lastGood # NoValue
       THEN Answer(createIcsResponse(lastGood.text), "empty, snapshot")
       ELSE /\ request' = [request EXCEPT !.at = "hash"]
            /\ UNCHANGED response
    /\ UNCHANGED <<recon, pure, background>>

\* A variant of ReadUpstreamHash that never finds the stored hash equal.
ReadUpstreamHashMissing ==
    /\ request.at = "hash"
    /\ request' = [request EXCEPT !.at = "parse"]
    /\ UNCHANGED <<recon, pure, response, background>>

\* const cachedHash = await getUpstreamHash(...); if (cachedHash === upstreamHash)
ReadUpstreamHash ==
    /\ request.at = "hash"
    /\ request' = [request EXCEPT !.at =
           IF getUpstreamHash(kv, TenantHash) = Str(computeHash(request.upstream.body))
           THEN "cached" ELSE "parse"]
    /\ UNCHANGED <<recon, pure, response, background>>

\* const cached = await getLastGoodSnapshot(...); if (cached) it is the answer.
ReadCached ==
    /\ request.at = "cached"
    /\ LET cached == getLastGoodSnapshot(kv, TenantHash) IN
       IF cached # NoValue
       THEN IF request.ifNoneMatch = Str(computeEtag(cached.text))
            THEN Answer(NotModified(computeEtag(cached.text)), "cached")
            ELSE Answer(createIcsResponse(cached.text), "cached")
       ELSE /\ request' = [request EXCEPT !.at = "parse"]
            /\ UNCHANGED response
    /\ UNCHANGED <<recon, pure, background>>

\* const parsed = parseIcs(rawIcs), and the call of normalizeCalendar.
StartNormalize ==
    /\ request.at = "parse"
    /\ StartRun(parseIcs(request.upstream.body).events)
    /\ request' = [request EXCEPT !.at = "normalize", !.normalized = TRUE]
    /\ UNCHANGED <<pure, response, background>>

\* A variant of Respond that hands the output to saveSnapshot before the
\* If-None-Match comparison.
RespondSavingFirst ==
    /\ request.at = "normalize"
    /\ pc = "done"
    /\ LET output == serializeCalendar(parseIcs(request.upstream.body), normalizedEvents, tz)
           save == [content |-> output,
                    upstreamHash |-> computeHash(request.upstream.body),
                    step |-> "latest", of |-> request.id]
       IN  /\ background' = background \cup {save}
           /\ response' = IF request.ifNoneMatch = Str(computeEtag(output))
                          THEN NotModified(computeEtag(output))
                          ELSE createIcsResponse(output)
           /\ request' = [request EXCEPT !.at = "responded", !.path = "fresh",
                                         !.output = Str(output),
                                         !.produced = @ \cup {[content |-> output,
                                             upstreamHash |->
                                                 computeHash(request.upstream.body)]}]
    /\ UNCHANGED <<recon, pure>>

\* normalizeCalendar has returned: serializeCalendar, the If-None-Match
\* comparison, ctx.waitUntil(saveSnapshot(...)) and the answer.
Respond ==
    /\ request.at = "normalize"
    /\ pc = "done"
    /\ LET output == serializeCalendar(parseIcs(request.upstream.body), normalizedEvents, tz)
           save == [content |-> output,
                    upstreamHash |-> computeHash(request.upstream.body),
                    step |-> "latest", of |-> request.id]
       IN  /\ IF request.ifNoneMatch = Str(computeEtag(output))
              THEN /\ response' = NotModified(computeEtag(output))
                   /\ UNCHANGED background
              ELSE /\ response' = createIcsResponse(output)
                   /\ background' = background \cup {save}
           /\ request' = [request EXCEPT !.at = "responded", !.path = "fresh",
                                         !.output = Str(output),
                                         !.produced = @ \cup {[content |-> output,
                                             upstreamHash |->
                                                 computeHash(request.upstream.body)]}]
    /\ UNCHANGED <<recon, pure>>

\* catch (error): the last good snapshot when there is one, 500 otherwise.
CatchFallback ==
    /\ request.at = "catch"
    /\ LET lastGood == getLastGoodSnapshot(kv, TenantHash) IN
       IF lastGood # NoValue
       THEN Answer(createIcsResponse(lastGood.text), "catch, snapshot")
       ELSE Answer(ErrorResponse(500, "Error processing calendar"), "catch, 500")
    /\ UNCHANGED <<recon, pure, background>>

\* saveSnapshot: await kv.put(latestKey, content)
SaveSnapshotLatest ==
    /\ \E save \in background :
          /\ save.step = "latest"
          /\ kv' = KvPut(kv, KvKey(TenantHash, "snapshot", <<"latest">>), Str(save.content))
          /\ background' = (background \ {save}) \cup {[save EXCEPT !.step = "hash"]}
    /\ UNCHANGED <<now, runs, pc, feed, tz, idx, currentKeys, normalizedEvents, kvWrites,
                   prevSnapshot, kvAtStart, emittedBefore, lastCancel, prevRun>>
    /\ UNCHANGED <<pure, request, response>>

\* saveSnapshot: await kv.put(hashKey, upstreamHash)
SaveSnapshotHash ==
    /\ \E save \in background :
          /\ save.step = "hash"
          /\ kv' = KvPut(kv, KvKey(TenantHash, "snapshot", <<"upstream_hash">>),
                         Str(save.upstreamHash))
          /\ background' = background \ {save}
    /\ UNCHANGED <<now, runs, pc, feed, tz, idx, currentKeys, normalizedEvents, kvWrites,
                   prevSnapshot, kvAtStart, emittedBefore, lastCancel, prevRun>>
    /\ UNCHANGED <<pure, request, response>>

NextRequest ==
    \/ HandleRequest
    \/ FetchUpstream
    \/ NotOkFallback
    \/ EmptyFallback
    \/ ReadUpstreamHash
    \/ ReadCached
    \/ StartNormalize
    \/ ProcessEvent
    \/ LandWrite
    \/ LoadSnapshot
    \/ CancelStep
    \/ SaveSnapshotKeys
    \/ FinishRun
    \/ Respond
    \/ CatchFallback
    \/ SaveSnapshotLatest
    \/ SaveSnapshotHash

SpecRequest == InitRequest /\ [][NextRequest]_vars

-----------------------------------------------------------------------------
(* Properties of the request handler, stated on SpecRequest *)

LatestNow == getLastGoodSnapshot(kv, TenantHash)

UpstreamHashNow == getUpstreamHash(kv, TenantHash)

\* The handler itself takes a step (the other steps are those of saveSnapshot
\* calls left in the background and of puts that were not awaited).
HandlerStep == request' # request

\* The part of the store that holds event states and snapshot:keys.
EventStore(store) == [k \in {x \in DOMAIN store : x[2] = "event" \/ x[3] = <<"keys">>} |-> store[k]]

\* The part of the store that holds snapshot:latest and snapshot:upstream_hash.
SnapshotStore(store) ==
    [k \in {x \in DOMAIN store : x[2] = "snapshot" /\ x[3] # <<"keys">>} |-> store[k]]

\* The saveSnapshot calls the request in flight has handed to ctx.waitUntil.
OwnBackground == {save \in background : save.of = request.id}

\* Event states and snapshot:keys change, and puts of them are issued, only by
\* the steps of a request that is inside normalizeCalendar.
EventStoreWrittenByNormalize ==
    (EventStore(kv') # EventStore(kv) \/ kvWrites' # kvWrites)
        => (request'.normalized /\ request'.at = "normalize")

UpstreamFailed(upstream) == upstream # NoValue /\ ~Ok(upstream)

\* C13: when the upstream is unreachable or answers outside 2xx, the body of
\* the answer is the stored snapshot:latest if there is one and the answer is
\* 502 otherwise; snapshot:latest and snapshot:upstream_hash are not written.
UpstreamFailureFallsBack ==
    [][(HandlerStep /\ UpstreamFailed(request.upstream) /\ request'.at = "responded")
          => /\ IF LatestNow # NoValue
                THEN response'.status = 200 /\ response'.body = LatestNow
                ELSE response'.status = 502
             /\ UNCHANGED <<kv, background>>]_vars

\* The request in flight went into normalizeCalendar with a body that has no
\* BEGIN:VEVENT, and normalizeCalendar has returned.
EmptyParseDone ==
    /\ request.normalized
    /\ FindSub(request.upstream.body, EventBegin) = 0
    /\ pc = "done"

FailurePaths ==
    {"not ok, snapshot", "not ok, 502", "invalid", "empty, snapshot",
     "catch, snapshot", "catch, 500"}

\* A step that changes snapshot:latest or snapshot:upstream_hash is a put of
\* a saveSnapshot call that was handed to ctx.waitUntil.
SnapshotWrittenBySave ==
    SnapshotStore(kv') # SnapshotStore(kv)
        => \E save \in background :
              \/ /\ save.step = "latest"
                 /\ kv' = KvPut(kv, KvKey(TenantHash, "snapshot", <<"latest">>),
                                Str(save.content))
              \/ /\ save.step = "hash"
                 /\ kv' = KvPut(kv, KvKey(TenantHash, "snapshot", <<"upstream_hash">>),
                                Str(save.upstreamHash))

\* A saveSnapshot call is handed to ctx.waitUntil by the request in flight,
\* after normalizeCalendar has returned for a 2xx body with BEGIN:VCALENDAR,
\* and it carries the serialized output and the hash of that body.
SaveStartedAfterNormalize ==
    \A save \in background' :
        (\A old \in background : old.of # save.of)
            => /\ HandlerStep
               /\ save.of = request.id
               /\ save.step = "latest"
               /\ request.at = "normalize"
               /\ request.normalized
               /\ pc = "done"
               /\ Ok(request.upstream)
               /\ FindSub(request.upstream.body, CalBegin) # 0
               /\ request'.path = "fresh"
               /\ save.content =
                      serializeCalendar(parseIcs(request.upstream.body), normalizedEvents, tz)
               /\ save.upstreamHash = computeHash(request.upstream.body)

\* C15: snapshot:latest and snapshot:upstream_hash are written only for a
\* request that fetched a 2xx body with BEGIN:VCALENDAR and completed parse,
\* normalize and serialize; a request that ends on the non-2xx, invalid,
\* empty-fallback or exception path never changes them.
SnapshotWrittenOnlyAfterSuccess ==
    /\ [][SnapshotWrittenBySave]_vars
    /\ [][SaveStartedAfterNormalize]_vars
    /\ [](request.path \in FailurePaths
             => ~request.normalized /\ OwnBackground = {})
    /\ [][(HandlerStep /\ request'.path \in FailurePaths)
             => UNCHANGED <<kv, kvWrites, background>>]_vars

\* A request ended on a failure path while a snapshot and its hash were stored.
FailedWithSnapshotStored ==
    /\ request.at = "responded"
    /\ request.path \in FailurePaths \ {"empty, snapshot"}
    /\ LatestNow # NoValue
    /\ UpstreamHashNow # NoValue
    /\ background = {}

\* The request in flight was answered after parse, normalize and serialize, no
\* saveSnapshot call of an earlier request was pending when it arrived, and no
\* saveSnapshot call is pending now.
FreshAndSettled ==
    /\ request.at = "responded"
    /\ request.path = "fresh"
    /\ request.alone
    /\ background = {}

\* C16: once a request has completed parse, normalize and serialize and all of
\* its background work has finished, with no other request in flight,
\* snapshot:latest is that request's serialized output.
LatestIsLastOutput == FreshAndSettled => LatestNow = request.output

HashBelongsToLatest ==
    (LatestNow # NoValue /\ UpstreamHashNow # NoValue)
        => [content |-> LatestNow.text, upstreamHash |-> UpstreamHashNow.text]
               \in request.produced

\* C19: a calendar request whose If-None-Match header is the ETag of the body
\* it would be answered with (fresh output, cached snapshot or fallback
\* snapshot) is answered 304 without a body.
ConditionalGetsNotModified ==
    (request.at = "responded" /\ request.ifNoneMatch # NoValue
         /\ response.etag = request.ifNoneMatch)
        => (response.status = 304 /\ response.body = NoValue)

-----------------------------------------------------------------------------
(* The keys of the store as strings, for several tenants (state.ts, index.ts) *)

\* Requests and teardowns in one behaviour.
MaxTenantOps == 5

\* Tenant ids as the characters of the hash in the URL, /^\/([a-f0-9]+)\//.
\* /register gives every tenant an id of one length (two characters here); a
\* URL can name an id of any length.
RegisteredIds == { <<"a", "1">>, <<"b", "1">> }

UrlIds == RegisteredIds \cup { <<"a">> }

\* A variant of KeyText that never puts the prefix in front.
KeyTextUnprefixed(prefix, kind, id) == <<kind, ":">> \o id

\* `${prefix}:${kind}:${id}`, or `${kind}:${id}` without a prefix.  The words
\* tenant, event and snapshot are atoms: none of them is made of the characters
\* of a tenant id.
KeyText(prefix, kind, id) ==
    (IF prefix # <<>> THEN prefix \o <<":">> ELSE <<>>) \o <<kind, ":">> \o id

\* String.prototype.startsWith
StartsWith(s, p) == Len(s) >= Len(p) /\ SubSeq(s, 1, Len(p)) = p

\* kv.list({ prefix }): the names of the keys that start with the prefix.
KvList(store, prefix) == {k \in DOMAIN store : StartsWith(k, prefix)}

\* kv.delete
KvDelete(store, keys) == [k \in DOMAIN store \ keys |-> store[k]]

\* F applied to the value of x.
Then(x, F(_)) == CHOOSE y \in {F(v) : v \in {x}} : TRUE

\* A store together with the keys that were read, written, listed or deleted,
\* and the NormalizedEvents pushed so far.
Touch(acc, key) == [acc EXCEPT !.log = @ \cup {key}]

TouchPut(acc, key, value) ==
    [acc EXCEPT !.store = KvPut(@, key, value), !.log = @ \cup {key}]

\* One iteration of the first loop of normalizeCalendar with its put landed:
\* getEventState, saveEventState and the push of the NormalizedEvent.
PutEventState(acc, hash, event) ==
    LET key == KeyText(hash, "event", EventKey(event))
        sequence == NextSequence(KvGet(acc.store, key), computeContentHash(event))
        newState == [sequence |-> sequence, contentHash |-> computeContentHash(event),
                     lastSeen |-> 0]
    IN  [store |-> KvPut(acc.store, key, newState),
         log |-> acc.log \cup {key},
         out |-> Append(acc.out, NormalizedOf(event, sequence, <<>>))]

\* The first loop of normalizeCalendar.
RECURSIVE PutEventStates(_, _, _)
PutEventStates(acc, hash, events) ==
    IF Len(events) = 0 THEN acc
    ELSE Then(PutEventState(acc, hash, events[1]),
              LAMBDA next : PutEventStates(next, hash, Tail(events)))

\* One iteration of the second loop of normalizeCalendar:
\* createCancelledEventFromState for a key the feed no longer has.
CancelOldKey(acc, hash, oldKey, current) ==
    LET key == KeyText(hash, "event", oldKey)
        prevState == KvGet(acc.store, key)
    IN  IF oldKey \in current THEN acc
        ELSE IF prevState = NoValue THEN Touch(acc, key)
        ELSE [store |-> KvPut(acc.store, key, CancelledState(prevState, 0)),
              log |-> acc.log \cup {key},
              out |-> Append(acc.out, CancelledOf(oldKey, prevState, 0))]

\* The second loop of normalizeCalendar.
RECURSIVE CancelOldKeys(_, _, _, _)
CancelOldKeys(acc, hash, oldKeys, current) ==
    IF Len(oldKeys) = 0 THEN acc
    ELSE Then(CancelOldKey(acc, hash, oldKeys[1], current),
              LAMBDA next : CancelOldKeys(next, hash, Tail(oldKeys), current))

\* normalizeCalendar after its first loop: getPreviousSnapshot, the second
\* loop and saveSnapshotKeys.
CancelAndSaveKeys(afterEvents, hash, keys) ==
    LET snapshotKey == KeyText(hash, "snapshot", <<"keys">>)
        previous == KvGet(afterEvents.store, snapshotKey)
    IN  Then(CancelOldKeys(Touch(afterEvents, snapshotKey), hash,
                           IF previous = NoValue THEN <<>> ELSE previous.eventKeys,
                           Range(keys)),
             LAMBDA afterCancel :
                 TouchPut(afterCancel, snapshotKey, [eventKeys |-> keys, generatedAt |-> 0]))

\* normalizeCalendar on the store of several tenants.
NormalizeFor(acc, hash, events) ==
    Then(PutEventStates(acc, hash, events),
         LAMBDA afterEvents :
             CancelAndSaveKeys(afterEvents, hash,
                               [i \in 1..Len(afterEvents.out) |-> afterEvents.out[i].eventKey]))

\* serializeCalendar and saveSnapshot for what normalizeCalendar returned.
SaveSnapshotFor(normalized, hash, parsed, upstreamHash) ==
    [store |-> KvPut(KvPut(normalized.store, KeyText(hash, "snapshot", <<"latest">>),
                           Str(serializeCalendar(parsed, normalized.out, <<>>))),
                     KeyText(hash, "snapshot", <<"upstream_hash">>), Str(upstreamHash)),
     log |-> normalized.log \cup {KeyText(hash, "snapshot", <<"latest">>),
                                  KeyText(hash, "snapshot", <<"upstream_hash">>)},
     out |-> normalized.out]

\* handleCalendarRequest after the checks of the body.
ProcessFor(start, hash, parsed, upstreamHash) ==
    LET latestKey == KeyText(hash, "snapshot", <<"latest">>)
        hashKey == KeyText(hash, "snapshot", <<"upstream_hash">>)
    IN  IF KvGet(start.store, hashKey) = Str(upstreamHash)
              /\ KvGet(start.store, latestKey) # NoValue
        THEN Touch(Touch(start, hashKey), latestKey)
        ELSE Then(NormalizeFor(Touch(start, hashKey), hash, parsed.events),
                  LAMBDA normalized : SaveSnapshotFor(normalized, hash, parsed, upstreamHash))

\* handleCalendarRequest for the tenant `hash` with every put landed and the
\* saveSnapshot call finished: the store it leaves and the keys it touched.
CalendarRequestFor(store, hash, upstream) ==
    LET configKey == KeyText(<<>>, "tenant", hash)
        latestKey == KeyText(hash, "snapshot", <<"latest">>)
        start == [store |-> store, log |-> {configKey}, out |-> <<>>]
    IN  IF KvGet(store, configKey) = NoValue THEN start
        ELSE IF ~Ok(upstream) THEN Touch(start, latestKey)
        ELSE IF FindSub(upstream.body, CalBegin) = 0 THEN start
        ELSE IF FindSub(upstream.body, EventBegin) = 0 /\ KvGet(store, latestKey) # NoValue
        THEN Touch(start, latestKey)
        ELSE Then(parseIcs(upstream.body),
                  LAMBDA parsed : ProcessFor(start, hash, parsed, computeHash(upstream.body)))

\* deleteTenantData: delete `tenant:${hash}`, list the prefix `${hash}:` and
\* delete every key listed.
deleteTenantData(store, hash) ==
    LET configKey == KeyText(<<>>, "tenant", hash)
        listed == KvList(store, hash \o <<":">>)
    IN  [store |-> KvDelete(store, {configKey} \cup listed),
         log |-> {configKey} \cup listed, out |-> <<>>]

\* handleDelete
DeleteFor(store, hash) ==
    LET configKey == KeyText(<<>>, "tenant", hash) IN
    IF KvGet(store, configKey) = NoValue
    THEN [store |-> store, log |-> {configKey}, out |-> <<>>]
    ELSE Touch(deleteTenantData(store, hash), configKey)

InitTenant ==
    /\ ReconInit
    /\ HandlerInit
    /\ arg = NoValue
    /\ res = NoValue
    /\ stage = "none"

\* What a step of this specification leaves alone.
TenantFrame ==
    UNCHANGED <<now, pc, feed, tz, idx, currentKeys, normalizedEvents, kvWrites,
                prevSnapshot, kvAtStart, emittedBefore, lastCancel, prevRun, handler>>

\* handleRegister for a source URL whose hash is `hash`.
RegisterTenant ==
    /\ runs < MaxTenantOps
    /\ \E hash \in RegisteredIds :
          /\ KvGet(kv, KeyText(<<>>, "tenant", hash)) = NoValue
          /\ kv' = KvPut(kv, KeyText(<<>>, "tenant", hash),
                         [sourceUrl |-> <<"https://upstream/">> \o hash, createdAt |-> 0])
          /\ arg' = [tenant |-> hash, before |-> kv]
          /\ res' = {KeyText(<<>>, "tenant", hash)}
    /\ stage' = "handleRegister"
    /\ runs' = runs + 1
    /\ TenantFrame

\* GET /<hash>/calendar.ics
TenantCalendarRequest ==
    /\ runs < MaxTenantOps
    /\ \E hash \in UrlIds, upstream \in UpstreamResults :
          \E acc \in {CalendarRequestFor(kv, hash, upstream)} :
          /\ kv' = acc.store
          /\ arg' = [tenant |-> hash, before |-> kv]
          /\ res' = acc.log
    /\ stage' = "handleCalendarRequest"
    /\ runs' = runs + 1
    /\ TenantFrame

\* GET /<hash>/calendar.ics?delete=1
TenantDelete ==
    /\ runs < MaxTenantOps
    /\ \E hash \in UrlIds :
          \E acc \in {DeleteFor(kv, hash)} :
          /\ kv' = acc.store
          /\ arg' = [tenant |-> hash, before |-> kv]
          /\ res' = acc.log
    /\ stage' = "handleDelete"
    /\ runs' = runs + 1
    /\ TenantFrame

NextTenant ==
    \/ RegisterTenant
    \/ TenantCalendarRequest
    \/ TenantDelete

SpecTenant == InitTenant /\ [][NextTenant]_vars

\* The keys of tenant `hash`: tenant:<hash> and everything under <hash>: .
KeyOf(key, hash) ==
    key = KeyText(<<>>, "tenant", hash) \/ StartsWith(key, hash \o <<":">>)

\* The last operation was a calendar request or a teardown.
TenantOperation == stage \in {"handleCalendarRequest", "handleDelete"}

\* C20: every store read, write, list and delete of a calendar request or a
\* teardown for tenant A uses a key that is tenant:A or starts with A: , and
\* the keys of every other tenant B are neither touched nor changed.
TenantIsolation ==
    TenantOperation =>
        /\ \A key \in res : KeyOf(key, arg.tenant)
        /\ \A other \in UrlIds \ {arg.tenant} :
              \A key \in DOMAIN kv \cup DOMAIN arg.before \cup res :
                  KeyOf(key, other) =>
                      /\ key \notin res
                      /\ KvGet(kv, key) = KvGet(arg.before, key)

\* A tenant was torn down while another tenant had its config, event states
\* and snapshot stored, and those are still there.
TornDownBesideAnother ==
    /\ stage = "handleDelete"
    /\ Cardinality(res) > 3
    /\ \E other \in RegisteredIds \ {arg.tenant} :
          Cardinality({key \in DOMAIN kv : KeyOf(key, other)}) > 3

-----------------------------------------------------------------------------
(* Teardown and registration beside the calendar requests (index.ts) *)

\* jsonResponse(data, status)
jsonResponse(message, status) == [status |-> status, body |-> Str(<<message>>), etag |-> NoValue]

\* The keys of the tenant `hash`: tenant:<hash> and the keys under <hash>: .
TenantKeys(store, hash) == {k \in DOMAIN store : k = TenantKey(hash) \/ k[1] = hash}

\* deleteTenantData: kv.delete of `tenant:${hash}`, kv.list of the prefix
\* `${hash}:` and kv.delete of every key listed.
DeleteTenantKeys(store, hash) == [k \in DOMAIN store \ TenantKeys(store, hash) |-> store[k]]

\* GET /<hash>/calendar.ics?delete=1 (handleDelete): 404 without a config,
\* deleteTenantData and { success: true } otherwise.  saveSnapshot calls that
\* earlier requests handed to ctx.waitUntil go on in the background.
HandleDelete ==
    /\ request.at \in {"none", "responded"}
    /\ request.id < MaxRequests
    /\ IF getTenantConfig(kv, TenantHash) = NoValue
       THEN /\ response' = jsonResponse("Calendar not found", 404)
            /\ request' = [NoRequest EXCEPT !.id = request.id + 1, !.at = "responded",
                                            !.path = "not found",
                                            !.produced = request.produced]
            /\ UNCHANGED <<kv, stage>>
       ELSE /\ kv' = DeleteTenantKeys(kv, TenantHash)
            /\ response' = jsonResponse("Calendar deleted", 200)
            /\ request' = [NoRequest EXCEPT !.id = request.id + 1, !.at = "responded",
                                            !.path = "deleted",
                                            !.produced = request.produced]
            /\ stage' = "torn down"
    /\ UNCHANGED <<now, runs, pc, feed, tz, idx, currentKeys, normalizedEvents, kvWrites,
                   prevSnapshot, kvAtStart, emittedBefore, lastCancel, prevRun>>
    /\ UNCHANGED <<arg, res, background>>

\* POST /register (handleRegister) for the source URL of the tenant, without a
\* timezone in the body: the config is stored when there is none.
HandleRegister ==
    /\ request.at \in {"none", "responded"}
    /\ request.id < MaxRequests
    /\ IF getTenantConfig(kv, TenantHash) = NoValue
       THEN kv' = KvPut(kv, TenantKey(TenantHash),
                        [sourceUrl |-> <<"https://upstream/calendar.ics">>, createdAt |-> now])
       ELSE UNCHANGED kv
    /\ response' = jsonResponse("proxyUrl", 200)
    /\ request' = [NoRequest EXCEPT !.id = request.id + 1, !.at = "responded",
                                    !.path = "registered", !.produced = request.produced]
    /\ stage' = "registered"
    /\ UNCHANGED <<now, runs, pc, feed, tz, idx, currentKeys, normalizedEvents, kvWrites,
                   prevSnapshot, kvAtStart, emittedBefore, lastCancel, prevRun>>
    /\ UNCHANGED <<arg, res, background>>

NextTeardown ==
    \/ NextRequest
    \/ HandleDelete
    \/ HandleRegister

SpecTeardown == InitRequest /\ [][NextTeardown]_vars

\* C21: after a teardown of the tenant has returned success, and until the
\* tenant is registered again, the store holds neither tenant:<hash> nor any key
\* under <hash>: .
TornDownStaysEmpty ==
    stage = "torn down" => TenantKeys(kv, TenantHash) = {}

-----------------------------------------------------------------------------
(* Two overlapping runs of normalizeCalendar for one tenant (index.ts) *)

\* The two requests whose normalizeCalendar calls overlap.
RunIds == {1, 2}

\* The feeds of the overlapping runs: no event, scenario S1's event, and the
\* same event with a LOCATION added (the same event-key, another content-hash).
OverlapFeeds ==
    { <<>>,
      << ParseEvent(<<UidX, Stamp1, Start1, SumM, OrgO>>) >>,
      << ParseEvent(<<UidX, Stamp1, Start1, SumM, OrgO, Loc1>>) >> }

\* The first loop of normalizeCalendar run on its own, every put landed.
RECURSIVE RunAloneEvents(_, _)
RunAloneEvents(store, events) ==
    IF Len(events) = 0 THEN store
    ELSE LET eventKey == EventKey(events[1])
             contentHash == computeContentHash(events[1])
             prevState == getEventState(store, eventKey, TenantHash)
             w == saveEventState(eventKey,
                                 [sequence |-> NextSequence(prevState, contentHash),
                                  contentHash |-> contentHash, lastSeen |-> 0],
                                 TenantHash)
         IN  RunAloneEvents(KvPut(store, w.key, w.value), Tail(events))

\* The second loop of normalizeCalendar run on its own.
RECURSIVE RunAloneCancel(_, _, _)
RunAloneCancel(store, oldKeys, current) ==
    IF Len(oldKeys) = 0 THEN store
    ELSE LET prevState == getEventState(store, oldKeys[1], TenantHash)
             w == saveEventState(oldKeys[1], CancelledState(prevState, 0), TenantHash)
         IN  IF oldKeys[1] \notin current /\ prevState # NoValue
             THEN RunAloneCancel(KvPut(store, w.key, w.value), Tail(oldKeys), current)
             ELSE RunAloneCancel(store, Tail(oldKeys), current)

\* The store one run of normalizeCalendar over `events` leaves when no other
\* run is in progress.
RunAlone(store, events) ==
    LET keys == [i \in 1..Len(events) |-> EventKey(events[i])]
        afterEvents == RunAloneEvents(store, events)
        previous == getPreviousSnapshot(afterEvents, TenantHash)
        afterCancel == RunAloneCancel(afterEvents,
                                      IF previous = NoValue THEN <<>> ELSE previous.eventKeys,
                                      Range(keys))
        w == saveSnapshotKeys(keys, 0, TenantHash)
    IN  KvPut(afterCancel, w.key, w.value)

\* The locals of one normalizeCalendar call.
RunLocals(f) ==
    [pc |-> "events", feed |-> f, idx |-> 1, currentKeys |-> <<>>,
     normalizedEvents |-> <<>>, kvWrites |-> {}, prevSnapshot |-> NoValue]

\* Two requests of the tenant have reached normalizeCalendar.  The store is one
\* that an earlier run has left; arg keeps it, res holds the locals of the runs.
InitOverlap ==
    /\ kv \in {RunAlone(EmptyMap, f) : f \in OverlapFeeds}
    /\ now = 0
    /\ runs = 0
    /\ pc = "idle"
    /\ feed = <<>>
    /\ tz \in TenantZones
    /\ idx = 1
    /\ currentKeys = <<>>
    /\ normalizedEvents = <<>>
    /\ kvWrites = {}
    /\ prevSnapshot = NoValue
    /\ kvAtStart = kv
    /\ emittedBefore = EmptyMap
    /\ lastCancel = EmptyMap
    /\ prevRun = NoValue
    /\ HandlerInit
    /\ arg = [before |-> kv]
    /\ res \in [RunIds -> {RunLocals(f) : f \in OverlapFeeds}]
    /\ stage = "none"

\* What a step of the overlapping runs leaves alone.
OverlapFrame ==
    UNCHANGED <<now, runs, pc, feed, tz, idx, currentKeys, normalizedEvents, kvWrites,
                prevSnapshot, kvAtStart, emittedBefore, lastCancel, prevRun, handler,
                arg, stage>>

\* One iteration of `for (const event of parsed.events)` in run r.
OverlapProcessEvent(r) ==
    /\ res[r].pc = "events"
    /\ res[r].idx <= Len(res[r].feed)
    /\ LET event == res[r].feed[res[r].idx]
           eventKey == EventKey(event)
           prevState == getEventState(kv, eventKey, TenantHash)
           sequence == NextSequence(prevState, computeContentHash(event))
           newState == [sequence |-> sequence,
                        contentHash |-> computeContentHash(event),
                        lastSeen |-> 0]
       IN  res' = [res EXCEPT
                     ![r].currentKeys = Append(@, eventKey),
                     ![r].kvWrites = @ \cup {saveEventState(eventKey, newState, TenantHash)},
                     ![r].normalizedEvents = Append(@, NormalizedOf(event, sequence, tz)),
                     ![r].idx = @ + 1]
    /\ UNCHANGED kv
    /\ OverlapFrame

\* A put of run r that was issued and not awaited takes effect in the store.
OverlapLandWrite(r) ==
    /\ \E w \in res[r].kvWrites :
          /\ kv' = KvPut(kv, w.key, w.value)
          /\ res' = [res EXCEPT ![r].kvWrites = @ \ {w}]
    /\ OverlapFrame

\* const prevSnapshot = await getPreviousSnapshot(kv, tenantHash) in run r.
OverlapLoadSnapshot(r) ==
    /\ res[r].pc = "events"
    /\ res[r].idx > Len(res[r].feed)
    /\ res' = [res EXCEPT ![r].prevSnapshot = getPreviousSnapshot(kv, TenantHash),
                          ![r].pc = "cancel", ![r].idx = 1]
    /\ UNCHANGED kv
    /\ OverlapFrame

\* prevSnapshot.eventKeys of run r.
OverlapOldKeys(r) ==
    IF res[r].prevSnapshot = NoValue THEN <<>> ELSE res[r].prevSnapshot.eventKeys

\* One iteration of `for (const oldKey of prevSnapshot.eventKeys)` in run r.
OverlapCancelStep(r) ==
    /\ res[r].pc = "cancel"
    /\ res[r].idx <= Len(OverlapOldKeys(r))
    /\ LET oldKey == OverlapOldKeys(r)[res[r].idx]
           prevState == getEventState(kv, oldKey, TenantHash)
           w == saveEventState(oldKey, CancelledState(prevState, 0), TenantHash)
       IN  IF oldKey \notin Range(res[r].currentKeys) /\ prevState # NoValue
           THEN /\ kv' = KvPut(kv, w.key, w.value)
                /\ res' = [res EXCEPT
                              ![r].normalizedEvents = Append(@, CancelledOf(oldKey, prevState, 0)),
                              ![r].idx = @ + 1]
           ELSE /\ UNCHANGED kv
                /\ res' = [res EXCEPT ![r].idx = @ + 1]
    /\ OverlapFrame

\* kvWrites.push(saveSnapshotKeys(kv, currentKeys, tenantHash)) in run r.
OverlapSaveSnapshotKeys(r) ==
    /\ res[r].pc = "cancel"
    /\ res[r].idx > Len(OverlapOldKeys(r))
    /\ res' = [res EXCEPT
                 ![r].kvWrites = @ \cup {saveSnapshotKeys(res[r].currentKeys, 0, TenantHash)},
                 ![r].pc = "await"]
    /\ UNCHANGED kv
    /\ OverlapFrame

\* await Promise.all(kvWrites) has resolved in run r.
OverlapFinishRun(r) ==
    /\ res[r].pc = "await"
    /\ res[r].kvWrites = {}
    /\ res' = [res EXCEPT ![r].pc = "done"]
    /\ UNCHANGED kv
    /\ OverlapFrame

NextOverlap ==
    \/ \E r \in RunIds : OverlapProcessEvent(r)
    \/ \E r \in RunIds : OverlapLandWrite(r)
    \/ \E r \in RunIds : OverlapLoadSnapshot(r)
    \/ \E r \in RunIds : OverlapCancelStep(r)
    \/ \E r \in RunIds : OverlapSaveSnapshotKeys(r)
    \/ \E r \in RunIds : OverlapFinishRun(r)

SpecOverlap == InitOverlap /\ [][NextOverlap]_vars

\* Both runs have returned.
BothDone == \A r \in RunIds : res[r].pc = "done"

\* What the store holds, timestamps aside: sequence and content-hash of every
\* event state, and the event-keys of snapshot:keys.
Timeless(store) ==
    [k \in DOMAIN store |->
        IF k[2] = "event"
        THEN [sequence |-> store[k].sequence, contentHash |-> store[k].contentHash]
        ELSE store[k].eventKeys]

\* C22: two overlapping runs of the tenant over identical upstream content
\* leave, in every interleaving, the event-state sequences, content-hashes and
\* snapshot:keys a single run over that content leaves.
IdenticalRunsIdempotent ==
    (BothDone /\ res[1].feed = res[2].feed)
        => Timeless(kv) = Timeless(RunAlone(arg.before, res[1].feed))

\* The sequence run r computed for the event-key of its feed's event.
ComputedSequence(r) == res[r].normalizedEvents[1].sequence

\* The two runs saw the same event-key with different content.
DifferentContent ==
    /\ Len(res[1].feed) = 1
    /\ Len(res[2].feed) = 1
    /\ EventKey(res[1].feed[1]) = EventKey(res[2].feed[1])
    /\ computeContentHash(res[1].feed[1]) # computeContentHash(res[2].feed[1])

\* C23: when two overlapping runs of the tenant observe different content for
\* one event-key, the sequence stored for the key after both have finished is
\* the highest of the sequences the two runs computed for it.
HighestSequenceWins ==
    (BothDone /\ DifferentContent)
        => getEventState(kv, EventKey(res[1].feed[1]), TenantHash).sequence
               = Max(ComputedSequence(1), ComputedSequence(2))

-----------------------------------------------------------------------------
(* Order and completion of the writes of one run, stated on Spec *)

\* The state reads and puts issued so far are those of the first events of the
\* feed, in feed order.
IssuedInFeedOrder ==
    pc \in {"events", "cancel", "await", "done"} =>
        /\ Len(currentKeys) <= Len(feed)
        /\ \A i \in 1..Len(currentKeys) : currentKeys[i] = EventKey(feed[i])
        /\ pc = "events" => Len(currentKeys) = idx - 1

\* The put of snapshot:keys takes effect in this step.
SnapshotKeysLands ==
    \E w \in kvWrites \ kvWrites' : w.key = KvKey(TenantHash, "snapshot", <<"keys">>)

\* C24: within one run the per-event state reads and writes are issued in feed
\* order, and the snapshot:keys write takes effect in the store only after
\* every per-event state write of the run has taken effect.
SnapshotKeysAfterEventWrites ==
    /\ []IssuedInFeedOrder
    /\ [][SnapshotKeysLands => \A w \in kvWrites' : w.key[2] # "event"]_vars

-----------------------------------------------------------------------------
(* Runs of normalizeCalendar over a store whose reads and puts can fail *)

\* The feeds of the runs: those of the overlapping runs and one of two events.
FaultyFeeds ==
    OverlapFeeds \cup
        { << ParseEvent(<<UidX, Stamp1, Start1, SumM, OrgO>>),
             ParseEvent(<<UidX, Stamp1, Start1, SumM2, OrgO>>) >> }

\* What has failed in the run in progress: the positions in the feed whose
\* state read failed, whether the read of snapshot:keys failed, the old keys
\* whose state read failed, and the puts that failed.
NoFaults == [reads |-> {}, snapshot |-> FALSE, cancelReads |-> {}, puts |-> {}]

InitFaulty ==
    /\ ReconInit
    /\ HandlerInit
    /\ arg = NoValue
    /\ res = NoFaults
    /\ stage = "none"

\* handleCalendarRequest reaches normalizeCalendar with the parsed upstream feed.
BeginFaultyRun(f) ==
    /\ StartRun(f)
    /\ res' = NoFaults
    /\ UNCHANGED <<arg, stage>>
    /\ UNCHANGED handler

\* A variant of ProcessEventReadFails in which the error of the read is not
\* caught: normalizeCalendar ends there without its NormalizedCalendar.
ProcessEventReadThrows ==
    /\ pc = "events"
    /\ idx <= Len(feed)
    /\ res' = [res EXCEPT !.reads = @ \cup {idx}]
    /\ pc' = "done"
    /\ UNCHANGED <<kv, now, runs, feed, tz, idx, currentKeys, normalizedEvents, kvWrites,
                   prevSnapshot, kvAtStart, emittedBefore, lastCancel, prevRun>>
    /\ UNCHANGED <<arg, stage>>
    /\ UNCHANGED handler

\* One iteration of `for (const event of parsed.events)` in which kv.get throws
\* or JSON.parse throws on what was stored: getEventState returns null.
ProcessEventReadFails ==
    /\ pc = "events"
    /\ idx <= Len(feed)
    /\ LET event == feed[idx]
           eventKey == EventKey(event)
           sequence == NextSequence(NoValue, computeContentHash(event))
           newState == [sequence |-> sequence,
                        contentHash |-> computeContentHash(event),
                        lastSeen |-> now]
       IN  /\ currentKeys' = Append(currentKeys, eventKey)
           /\ kvWrites' = kvWrites \cup {saveEventState(eventKey, newState, TenantHash)}
           /\ normalizedEvents' = Append(normalizedEvents, NormalizedOf(event, sequence, tz))
    /\ res' = [res EXCEPT !.reads = @ \cup {idx}]
    /\ idx' = idx + 1
    /\ UNCHANGED <<kv, now, runs, pc, feed, tz, prevSnapshot, kvAtStart, emittedBefore,
                   lastCancel, prevRun>>
    /\ UNCHANGED <<arg, stage>>
    /\ UNCHANGED handler

\* A put that was issued and not awaited fails: saveEventState and
\* saveSnapshotKeys catch the error and log it.
DropWrite ==
    /\ \E w \in kvWrites :
          /\ kvWrites' = kvWrites \ {w}
          /\ res' = [res EXCEPT !.puts = @ \cup {w.key}]
    /\ UNCHANGED <<kv, now, runs, pc, feed, tz, idx, currentKeys, normalizedEvents,
                   prevSnapshot, kvAtStart, emittedBefore, lastCancel, prevRun>>
    /\ UNCHANGED <<arg, stage>>
    /\ UNCHANGED handler

\* getPreviousSnapshot when kv.get or JSON.parse throws: it returns null.
LoadSnapshotFails ==
    /\ pc = "events"
    /\ idx > Len(feed)
    /\ prevSnapshot' = NoValue
    /\ pc' = "cancel"
    /\ idx' = 1
    /\ res' = [res EXCEPT !.snapshot = TRUE]
    /\ UNCHANGED <<kv, now, runs, feed, tz, currentKeys, normalizedEvents, kvWrites,
                   kvAtStart, emittedBefore, lastCancel, prevRun>>
    /\ UNCHANGED <<arg, stage>>
    /\ UNCHANGED handler

\* One iteration of `for (const oldKey of prevSnapshot.eventKeys)` in which the
\* getEventState of createCancelledEventFromState fails: it returns null and
\* nothing is pushed.
CancelStepReadFails ==
    /\ pc = "cancel"
    /\ idx <= Len(OldKeys)
    /\ OldKeys[idx] \notin Range(currentKeys)
    /\ res' = [res EXCEPT !.cancelReads = @ \cup {OldKeys[idx]}]
    /\ idx' = idx + 1
    /\ UNCHANGED <<kv, now, runs, pc, feed, tz, currentKeys, normalizedEvents, kvWrites,
                   prevSnapshot, kvAtStart, emittedBefore, lastCancel, prevRun>>
    /\ UNCHANGED <<arg, stage>>
    /\ UNCHANGED handler

\* One iteration of the same loop in which the awaited put of
\* createCancelledEventFromState fails: saveEventState catches the error and
\* the cancellation is pushed all the same.
CancelStepWriteFails ==
    /\ pc = "cancel"
    /\ idx <= Len(OldKeys)
    /\ LET oldKey == OldKeys[idx]
           prevState == getEventState(kv, oldKey, TenantHash)
       IN  /\ oldKey \notin Range(currentKeys)
           /\ prevState # NoValue
           /\ normalizedEvents' =
                  Append(normalizedEvents, CancelledOf(oldKey, prevState, now))
           /\ res' = [res EXCEPT !.puts = @ \cup {KvKey(TenantHash, "event", oldKey)}]
    /\ idx' = idx + 1
    /\ UNCHANGED <<kv, now, runs, pc, feed, tz, currentKeys, kvWrites, prevSnapshot,
                   kvAtStart, emittedBefore, lastCancel, prevRun>>
    /\ UNCHANGED <<arg, stage>>
    /\ UNCHANGED handler

NextFaulty ==
    \/ \E f \in FaultyFeeds : BeginFaultyRun(f)
    \/ ProcessEvent
    \/ ProcessEventReadFails
    \/ LandWrite
    \/ DropWrite
    \/ LoadSnapshot
    \/ LoadSnapshotFails
    \/ CancelStep
    \/ CancelStepReadFails
    \/ CancelStepWriteFails
    \/ SaveSnapshotKeys
    \/ FinishRun

SpecFaulty == InitFaulty /\ [][NextFaulty]_vars


\* An event whose state read failed is emitted with sequence 0.
FailedReadIsAbsent ==
    \A i \in res.reads :
        /\ i <= Len(normalizedEvents)
        /\ normalizedEvents[i].sequence = 0
        /\ ~normalizedEvents[i].cancelled

\* A failed read of snapshot:keys yields no cancellation, and a failed state
\* read of an old key yields none for that key.
FailedSnapshotReadCancelsNothing ==
    \A i \in 1..Len(normalizedEvents) :
        normalizedEvents[i].cancelled =>
            /\ ~res.snapshot
            /\ normalizedEvents[i].eventKey \notin res.cancelReads

\* A step in which a put fails leaves the store as it was.
FailedPutDropped == res'.puts # res.puts => kv' = kv

\* The run has returned, and what it returned starts with the normalized
\* events of the feed, in feed order.
ReturnedNormalizedFeed ==
    pc = "done" =>
        /\ Len(normalizedEvents) >= Len(feed)
        /\ \A i \in 1..Len(feed) :
              normalizedEvents[i] = NormalizedOf(feed[i], normalizedEvents[i].sequence, tz)

\* C26: a failing state-store read or write never fails the request: a failed
\* or unparsable read counts as an absent record (the event is emitted with
\* sequence 0, a failed snapshot read yields no cancellations), a failed write
\* is dropped, and the run still returns the normalized feed.
StoreFailuresRecovered ==
    /\ [](FailedReadIsAbsent /\ FailedSnapshotReadCancelsNothing /\ ReturnedNormalizedFeed)
    /\ [][FailedPutDropped]_vars

\* A run has returned the normalized feed after a state read, the snapshot
\* read and a put had failed.
ReturnedDespiteFailures ==
    /\ pc = "done"
    /\ Len(feed) > 0
    /\ res.reads # {}
    /\ res.snapshot
    /\ res.puts # {}
    /\ getEventState(kvAtStart, EventKey(feed[1]), TenantHash) # NoValue

-----------------------------------------------------------------------------
(* The state records of the events a run returns, stated on SpecFaulty *)

\* The state record of the i-th returned event is in the store.
HasStateRecord(i) ==
    getEventState(kv, normalizedEvents[i].eventKey, TenantHash) # NoValue

-----------------------------------------------------------------------------
(* Runs of normalizeCalendar that can be aborted between store operations *)

\* What is remembered of an aborted run: whether the run before the one in
\* progress was aborted, and the store as it was when the aborted run began.
NoAbort == [aborted |-> FALSE, before |-> EmptyMap]

InitAbort ==
    /\ ReconInit
    /\ HandlerInit
    /\ arg = NoValue
    /\ res = NoAbort
    /\ stage = "none"

\* handleCalendarRequest reaches normalizeCalendar with the parsed upstream
\* feed; stage tells whether the run before this one was aborted.
BeginAbortableRun(f) ==
    /\ StartRun(f)
    /\ stage' = IF pc = "idle" /\ res.aborted THEN "after abort" ELSE "none"
    /\ res' = IF pc = "idle" /\ res.aborted THEN [res EXCEPT !.aborted = FALSE] ELSE NoAbort
    /\ UNCHANGED arg
    /\ UNCHANGED handler

\* The invocation is cut off between two store operations: its locals are gone
\* and the puts still in flight never take effect.
Abort ==
    /\ pc \in {"events", "cancel", "await"}
    /\ pc' = "idle"
    /\ kvWrites' = {}
    /\ normalizedEvents' = <<>>
    /\ currentKeys' = <<>>
    /\ res' = [aborted |-> TRUE, before |-> kvAtStart]
    /\ stage' = "none"
    /\ UNCHANGED <<kv, now, runs, feed, tz, idx, prevSnapshot, kvAtStart, emittedBefore,
                   lastCancel, prevRun>>
    /\ UNCHANGED arg
    /\ UNCHANGED handler

NextAbort ==
    \/ \E f \in FaultyFeeds : BeginAbortableRun(f)
    \/ ProcessEvent
    \/ LandWrite
    \/ LoadSnapshot
    \/ CancelStep
    \/ SaveSnapshotKeys
    \/ FinishRun
    \/ Abort

SpecAbort == InitAbort /\ [][NextAbort]_vars

\* The run that followed an aborted run has returned.
CompleteAfterAbort == pc = "done" /\ stage = "after abort"

\* The event-keys snapshot:keys held when the aborted run began.
KeysBeforeAbort ==
    IF getPreviousSnapshot(res.before, TenantHash) = NoValue THEN {}
    ELSE Range(getPreviousSnapshot(res.before, TenantHash).eventKeys)

\* C27: when a run is aborted between its store operations, the next complete
\* run cancels every key that was in snapshot:keys before the aborted run and
\* is absent from its own feed, and no event-key's stored sequence is lower
\* than before the aborted run.
AbortTolerated ==
    CompleteAfterAbort =>
        /\ \A k \in KeysBeforeAbort \ Range(currentKeys) :
              \E i \in 1..Len(normalizedEvents) :
                  normalizedEvents[i].cancelled /\ normalizedEvents[i].eventKey = k
        /\ \A key \in DOMAIN res.before :
              key[2] = "event" =>
                  /\ key \in DOMAIN kv
                  /\ kv[key].sequence >= res.before[key].sequence

-----------------------------------------------------------------------------
(* parseIcs, normalizeCalendar and serializeCalendar on canonical feeds *)

StartChicago ==
    <<"DTSTART", ";", "TZID", "=", "America/Chicago", ":", "20240601", "T", "090000">>

\* The VEVENT bodies of canonical feeds: UID and SEQUENCE first, the other
\* properties in the order of PROPERTY_ORDER, datetimes in UTC or with an IANA
\* TZID, no RRULE.
CanonicalBodies ==
    { <<uid, <<"SEQUENCE", ":", "0">>, Stamp1, start, summary>> \o organizer :
          uid \in {UidX, <<"UID", ":", "Y">>},
          start \in {StartUtc, StartChicago},
          summary \in {SumM, SumM2},
          organizer \in {<<>>, <<OrgO>>} }

\* A VTIMEZONE block for the tenant's zone, as a feed can carry it.
ChicagoBlock ==
    << <<"BEGIN", ":", "VTIMEZONE">>, <<"TZID", ":", "America/Chicago">>,
       <<"END", ":", "VTIMEZONE">> >>

\* Canonical feeds of no or one event, with CRLF line ends and no line after
\* END:VCALENDAR, with and without a PRODID and a VTIMEZONE block.
CanonicalFeeds ==
    { JoinWith(<<CalBegin, CalVersion>> \o prodid \o block \o event \o <<CalEnd>>, <<"\r\n">>) :
          prodid \in {<<>>, << <<"PRODID", ":", "P">> >>},
          block \in {<<>>, ChicagoBlock},
          event \in {<<>>} \cup { <<EventBegin>> \o body \o <<EventEnd>> :
                                    body \in CanonicalBodies } }

InitRoundTrip ==
    /\ ReconInit
    /\ HandlerInit
    /\ arg \in CanonicalFeeds
    /\ res = NoValue
    /\ stage = "input"

\* parseIcs, normalizeCalendar over a store without a state for the events of
\* the feed, and serializeCalendar.
RoundTrip ==
    /\ stage = "input"
    /\ \E parsed \in {parseIcs(arg)} :
          res' = serializeCalendar(parsed,
                                   [i \in 1..Len(parsed.events) |->
                                       NormalizedOf(parsed.events[i], 0, tz)],
                                   tz)
    /\ stage' = "serializeCalendar"
    /\ UNCHANGED <<arg, recon, handler>>

NextRoundTrip == RoundTrip

SpecRoundTrip == InitRoundTrip /\ [][NextRoundTrip]_vars

\* C28: for an input feed that is already canonical, serializing the
\* normalization of the parsed feed reproduces the input up to line folding.
RoundTripStable ==
    stage = "serializeCalendar" => unfoldLines(res) = unfoldLines(arg)

-----------------------------------------------------------------------------
(* The loop of parseIcs, one line at a time (parser.ts) *)

\* The unfolded lines of one input.
MaxLines == 4

\* The lines the loop tells apart: the BEGIN and END of the two blocks, and a
\* property line.
ParseLinePool ==
    { <<"BEGIN", ":", "VTIMEZONE">>, <<"END", ":", "VTIMEZONE">>,
      EventBegin, EventEnd, SumM }

\* const lines = unfoldLines(ics), and the locals before the loop.
InitParse ==
    /\ ReconInit
    /\ HandlerInit
    /\ arg \in UNION {[1..n -> ParseLinePool] : n \in 0..MaxLines}
    /\ res = ParserStart
    /\ stage = "input"

\* One iteration of `for (const line of lines)`.
ParseNextLine ==
    /\ Len(arg) > 0
    /\ res' = ParseLine(arg[1], res)
    /\ arg' = Tail(arg)
    /\ stage' = "parseIcs"
    /\ UNCHANGED <<recon, handler>>

NextParse == ParseNextLine

SpecParse == InitParse /\ [][NextParse]_vars

\* The parser is not inside a timezone block and inside an event at once.
OneBlockAtATime == ~(res.inTimezone /\ res.inEvent)

\* A BEGIN:VTIMEZONE line inside an open event opens no timezone block, a
\* BEGIN:VEVENT line inside an open timezone block opens no event, and a line
\* inside an open event changes nothing but the event.
BlockLinesStayInside ==
    /\ (res.inEvent /\ arg[1] = <<"BEGIN", ":", "VTIMEZONE">>) => ~res'.inTimezone
    /\ (res.inTimezone /\ arg[1] = EventBegin) => res'.inEvent = res.inEvent
    /\ (res.inEvent /\ ~res.inTimezone) =>
           /\ res'.timezoneBlocks = res.timezoneBlocks
           /\ res'.currentTimezoneLines = res.currentTimezoneLines
           /\ res'.headerLines = res.headerLines
           /\ res'.footerLines = res.footerLines
           /\ res'.inTimezone = res.inTimezone

\* C29: during block extraction the parser is never in the tz-block state and
\* the event state at once: BEGIN:VTIMEZONE inside an open event opens no
\* timezone block, BEGIN:VEVENT inside an open timezone block opens no event,
\* and every line between BEGIN:VEVENT and its END:VEVENT is handled only as a
\* line of that event.
BlockStatesExclusive ==
    /\ []OneBlockAtATime
    /\ [][BlockLinesStayInside]_vars

-----------------------------------------------------------------------------
(* The UID and SEQUENCE lines of emitted VEVENTs (types.ts) *)

\* The highest sequence number the emitted events are given.
MaxSequence == 2

\* The UID properties an upstream VEVENT starts with: none, one, two, one with
\* a lower-case name, one with a parameter.
UpstreamUids ==
    { <<>>, <<UidX>>, <<UidX, <<"UID", ":", "Y">> >>, << <<"uid", ":", "X">> >>,
      << <<"UID", ";", "X-P", "=", "1", ":", "X">> >> }

\* Its SEQUENCE properties: none, one, two.
UpstreamSequences ==
    { <<>>, << <<"SEQUENCE", ":", "5">> >>,
      << <<"SEQUENCE", ":", "5">>, <<"sequence", ":", "7">> >> }

\* Upstream events: UID properties first, SEQUENCE properties after SUMMARY,
\* with and without a RECURRENCE-ID and a further UID as the last property.
EmitEvents ==
    { ParseEvent(u \o <<Stamp1, Start1, SumM>> \o s \o r \o last) :
          u \in UpstreamUids, s \in UpstreamSequences,
          r \in {<<>>, <<Rid1>>}, last \in {<<>>, <<UidX>>} }

InitEmit ==
    /\ ReconInit
    /\ HandlerInit
    /\ arg \in [event : EmitEvents, sequence : 0..MaxSequence]
    /\ res = NoValue
    /\ stage = "input"

\* normalizeCalendar pushes the event with the sequence it computed.
EmitNormalized ==
    /\ stage = "input"
    /\ res' = NormalizedOf(arg.event, arg.sequence, tz).lines
    /\ stage' = "normalizeEventLines"
    /\ UNCHANGED <<arg, recon, handler>>

\* createCancelledEventFromState for the key of the event, the stored sequence
\* being the one of the input.
EmitCancelled ==
    /\ stage = "input"
    /\ res' = CancelledOf(EventKey(arg.event),
                          [sequence |-> arg.sequence, contentHash |-> <<"h">>,
                           lastSeen |-> 0],
                          1).lines
    /\ stage' = "createCancelledEventLines"
    /\ UNCHANGED <<arg, recon, handler>>

NextEmit ==
    \/ EmitNormalized
    \/ EmitCancelled

SpecEmit == InitEmit /\ [][NextEmit]_vars

\* The sequence number of the emitted event.
EmittedSequence ==
    IF stage = "normalizeEventLines" THEN arg.sequence ELSE arg.sequence + 1

\* C30: every emitted VEVENT, normalized or synthesized cancellation, has
\* UID:<stable-uid>@calproxy and SEQUENCE:<n> as the two lines directly after
\* BEGIN:VEVENT and no other UID or SEQUENCE line, whatever UID and SEQUENCE
\* properties the upstream event carried.
CanonicalUidAndSequence ==
    stage # "input" =>
        /\ Len(res) >= 4
        /\ res[1] = EventBegin
        /\ res[2] = <<"UID", ":">> \o computeStableUid(arg.event) \o <<"@calproxy">>
        /\ res[3] = <<"SEQUENCE", ":", ToString(EmittedSequence)>>
        /\ \A i \in 4..Len(res) : LineName(res[i]) \notin {<<"UID">>, <<"SEQUENCE">>}

\* A normalized event was emitted for an upstream event that carried two UID
\* properties, one of them last, and two SEQUENCE properties.
UpstreamUidOverridden ==
    /\ stage = "normalizeEventLines"
    /\ Len(PropsNamed(arg.event, <<"UID">>)) >= 2
    /\ Len(PropsNamed(arg.event, <<"SEQUENCE">>)) = 2
    /\ arg.event.properties[Len(arg.event.properties) - 1].name = <<"UID">>
    /\ arg.sequence > 0

-----------------------------------------------------------------------------
(* The order of the properties of an emitted VEVENT (types.ts) *)

\* The longest list of further properties of an upstream event.
MaxExtras == 3

\* Properties of two names outside PROPERTY_ORDER, one name twice, and two
\* properties of the table.
OrderPool ==
    { <<"X-A", ":", "1">>, <<"X-B", ":", "1">>, <<"X-A", ":", "2">>, Loc1, End1 }

OrderBodies ==
    UNION { [1..n -> OrderPool] : n \in 0..MaxExtras }

\* Upstream events: the further properties before or after SUMMARY and DTSTART.
OrderEvents ==
    { ParseEvent(<<UidX, Stamp1>> \o b) : b \in {x \o <<SumM, Start1>> : x \in OrderBodies} }
    \cup { ParseEvent(<<UidX, Stamp1>> \o b) : b \in {<<SumM, Start1>> \o x : x \in OrderBodies} }

InitOrder ==
    /\ ReconInit
    /\ HandlerInit
    /\ arg \in [event : OrderEvents]
    /\ res = NoValue
    /\ stage = "input"

\* normalizeEventLines(event, stableUid, sequence, tz)
OrderLines ==
    /\ stage = "input"
    /\ res' = normalizeEventLines(arg.event, computeStableUid(arg.event), 0, tz)
    /\ stage' = "normalizeEventLines"
    /\ UNCHANGED <<arg, recon, handler>>

NextOrder == OrderLines

SpecOrder == InitOrder /\ [][NextOrder]_vars

\* The lines of the emitted event between SEQUENCE and END:VEVENT.
EmittedBody == SubSeq(res, 4, Len(res) - 1)

InTable(name) == name \in Range(PROPERTY_ORDER)

TableRank(name) == CHOOSE i \in 1..Len(PROPERTY_ORDER) : PROPERTY_ORDER[i] = name

\* The properties of the table come first, in the table's order.
TableOrderKept ==
    stage = "normalizeEventLines" =>
        \A i, j \in 1..Len(EmittedBody) :
            i < j =>
                /\ InTable(LineName(EmittedBody[j])) => InTable(LineName(EmittedBody[i]))
                /\ InTable(LineName(EmittedBody[j])) =>
                       TableRank(LineName(EmittedBody[i])) <= TableRank(LineName(EmittedBody[j]))

\* The remaining properties of the upstream event, in upstream order.
UpstreamRest ==
    SelectSeq(arg.event.properties,
              LAMBDA p : ~InTable(p.name)
                         /\ p.name \notin {<<"BEGIN">>, <<"END">>, <<"UID">>, <<"SEQUENCE">>})

\* The remaining properties follow in their upstream order.
RestOrderKept ==
    stage = "normalizeEventLines" =>
        SelectSeq(EmittedBody, LAMBDA l : ~InTable(LineName(l)))
            = [i \in 1..Len(UpstreamRest) |-> reconstructProperty(UpstreamRest[i])]

\* C31: in every emitted VEVENT the properties named in the canonical order
\* table appear in the table's order, and all remaining properties follow them
\* in the relative order they had upstream, also when properties of different
\* unknown names are interleaved or a name repeats.
PropertyOrderKept == TableOrderKept /\ RestOrderKept

-----------------------------------------------------------------------------
(* normalizeExdateRdate on its own (types.ts) *)

\* The longest EXDATE/RDATE list.
MaxEntries == 3

\* Entries of a list: two dates, two floating date-times, one UTC date-time.
ListEntries ==
    { <<"20240601">>, <<"20240602">>, <<"20240601", "T", "090000">>,
      <<"20240615", "T", "090000">>, <<"20240608", "T", "090000", "Z">> }

EntryLists == UNION { [1..n -> ListEntries] : n \in 1..MaxEntries }

\* <<>>: the property has no TZID parameter.
ListTzids == { <<>>, <<"Central Standard Time">>, <<"Europe/Berlin">> }

ListLine(name, tzid, entries) ==
    <<name>> \o (IF tzid = <<>> THEN <<>> ELSE <<";", "TZID", "=">> \o tzid)
             \o <<":">> \o JoinWith(entries, <<",">>)

InitList ==
    /\ ReconInit
    /\ HandlerInit
    /\ arg \in [name : {"EXDATE", "RDATE"}, tzid : ListTzids, entries : EntryLists]
    /\ res = NoValue
    /\ stage = "input"

\* normalizeProperty's EXDATE/RDATE case for the parsed property.
NormalizeList ==
    /\ stage = "input"
    /\ res' = normalizeExdateRdate(parseProperty(ListLine(arg.name, arg.tzid, arg.entries)))
    /\ stage' = "normalizeExdateRdate"
    /\ UNCHANGED <<arg, recon, handler>>

NextList == NormalizeList

SpecList == InitList /\ [][NextList]_vars

EmittedEntries == Split(LineValue(res), ",")

IsDateOnly(entry) == ~Includes(entry, "T")

IsFloatingEntry(entry) == Includes(entry, "T") /\ entry[Len(entry)] # "Z"

\* The emitted entries are in ascending order.
EntriesSorted ==
    stage = "normalizeExdateRdate" =>
        \A i, j \in 1..Len(EmittedEntries) :
            i < j => ~StrLess(EmittedEntries[j], EmittedEntries[i])

\* VALUE=DATE exactly when all entries are date-only.
ValueDateWhenAllDates ==
    stage = "normalizeExdateRdate" =>
        (ParamGet(parseProperty(res).params, <<"VALUE">>) = <<"DATE">>
            <=> \A i \in 1..Len(arg.entries) : IsDateOnly(arg.entries[i]))

\* TZID= exactly when some entry is floating and the property has a TZID.
TzidWhenFloating ==
    stage = "normalizeExdateRdate" =>
        (LineTzid(res) # <<>>
            <=> (arg.tzid # <<>>
                 /\ \E i \in 1..Len(arg.entries) : IsFloatingEntry(arg.entries[i])))

\* C32: for an EXDATE or RDATE with any list of entries, the emitted entries
\* are sorted in ASCII order, and the emitted property carries VALUE=DATE
\* exactly when all entries are date-only and TZID= exactly when some entry is
\* floating and the property has a TZID parameter.
ListParametersExact == EntriesSorted /\ ValueDateWhenAllDates /\ TzidWhenFloating

-----------------------------------------------------------------------------
(* normalizeRrule on its own (types.ts) *)

\* The largest number of clauses of a rule.
MaxClauses == 3

RuleClauses ==
    { <<"FREQ", "=", "MONTHLY">>, <<"INTERVAL", "=", "2">>,
      <<"BYSETPOS", "=", "1">>, <<"BYSETPOS", "=", "-1">>,
      <<"BYDAY", "=", "MO">>, <<"BYDAY", "=", "MO", ",", "TU">> }

\* Rules of distinct clauses in any order, with at most one BYSETPOS clause and
\* at most one BYDAY clause.
Rules ==
    { r \in UNION { [1..n -> RuleClauses] : n \in 1..MaxClauses } :
        /\ \A i, j \in 1..Len(r) : i # j => r[i] # r[j]
        /\ Cardinality({i \in 1..Len(r) : r[i][1] = "BYSETPOS"}) <= 1
        /\ Cardinality({i \in 1..Len(r) : r[i][1] = "BYDAY"}) <= 1 }

InitRule ==
    /\ ReconInit
    /\ HandlerInit
    /\ arg \in [clauses : Rules]
    /\ res = NoValue
    /\ stage = "input"

\* normalizeProperty's RRULE case for the parsed property.
NormalizeRule ==
    /\ stage = "input"
    /\ res' = normalizeRrule(parseProperty(<<"RRULE", ":">> \o JoinWith(arg.clauses, <<";">>)))
    /\ stage' = "normalizeRrule"
    /\ UNCHANGED <<arg, recon, handler>>

NextRule == NormalizeRule

SpecRule == InitRule /\ [][NextRule]_vars

\* The rule has a BYSETPOS clause and a BYDAY clause of one weekday.
Rewritable(clauses) ==
    /\ \E i \in 1..Len(clauses) : clauses[i][1] = "BYSETPOS"
    /\ \E i \in 1..Len(clauses) : clauses[i][1] = "BYDAY" /\ Len(clauses[i]) = 3

\* The clauses the rewritten rule is to have: BYSETPOS left out, its number
\* put before the weekday of BYDAY, every other clause as it was.
RewrittenClauses(clauses) ==
    LET pos == clauses[CHOOSE i \in 1..Len(clauses) : clauses[i][1] = "BYSETPOS"][3]
        kept == SelectSeq(clauses, LAMBDA c : c[1] # "BYSETPOS")
    IN  [i \in 1..Len(kept) |->
            IF kept[i][1] = "BYDAY" THEN <<"BYDAY", "=", pos, kept[i][3]>> ELSE kept[i]]

\* C33: normalizeRrule rewrites a rule with BYSETPOS=<n> and a single
\* two-letter BYDAY=<wd> into the same rule with BYDAY=<n><wd> and no BYSETPOS
\* clause, wherever the two clauses stand, the other clauses and the separators
\* between them intact; every other rule is emitted verbatim.
RruleRewritten ==
    stage = "normalizeRrule" =>
        res = <<"RRULE", ":">> \o
              JoinWith(IF Rewritable(arg.clauses) THEN RewrittenClauses(arg.clauses)
                       ELSE arg.clauses, <<";">>)

\* The same for the rules in which BYSETPOS is not the first clause.
RruleRewrittenAfterFirst ==
    (stage = "normalizeRrule" /\ arg.clauses[1][1] # "BYSETPOS") =>
        res = <<"RRULE", ":">> \o
              JoinWith(IF Rewritable(arg.clauses) THEN RewrittenClauses(arg.clauses)
                       ELSE arg.clauses, <<";">>)

-----------------------------------------------------------------------------
(* parseIcs and serializeCalendar over feeds with VTIMEZONE blocks *)

\* The largest number of VTIMEZONE blocks of an upstream feed.
MaxBlocks == 2

\* The lines of an upstream VTIMEZONE block for a TZID.
ZoneBlock(tzid) ==
    << <<"BEGIN", ":", "VTIMEZONE">>, <<"TZID", ":">> \o tzid, <<"END", ":", "VTIMEZONE">> >>

SerialTzids == { <<"Central Standard Time">>, <<"America/Chicago">>, <<"Europe/Berlin">> }

\* The blocks of a feed: at most MaxBlocks, of different TZIDs, in any order.
SerialBlockLists ==
    { b \in UNION { [1..n -> SerialTzids] : n \in 0..MaxBlocks } :
        \A i, j \in 1..Len(b) : i # j => b[i] # b[j] }

RECURSIVE BlockLines(_)
BlockLines(tzids) ==
    IF Len(tzids) = 0 THEN <<>> ELSE ZoneBlock(tzids[1]) \o BlockLines(Tail(tzids))

\* The tenant's effective zone (<<>>: none configured).
SerialZones == { <<>>, <<"America/Chicago">>, <<"Europe/Berlin">> }

\* The upstream bytes of an input: the blocks, then no or one VEVENT.
SerialFeed(in) ==
    JoinWith(<<CalBegin, CalVersion>> \o BlockLines(in.blocks)
                 \o (IF in.event THEN <<EventBegin, UidX, Stamp1, Start1, SumM, EventEnd>>
                     ELSE <<>>)
                 \o <<CalEnd>>, <<"\r\n">>)

InitSerial ==
    /\ ReconInit
    /\ HandlerInit
    /\ arg \in [blocks : SerialBlockLists, event : BOOLEAN, cancel : BOOLEAN,
                zone : SerialZones]
    /\ res = NoValue
    /\ stage = "input"

\* parseIcs, the NormalizedEvents normalizeCalendar returns (with a
\* cancellation of another key when arg.cancel), and serializeCalendar.
SerializeFeed ==
    /\ stage = "input"
    /\ \E parsed \in {parseIcs(SerialFeed(arg))} :
          res' = serializeCalendar(
                     parsed,
                     [i \in 1..Len(parsed.events) |->
                         NormalizedOf(parsed.events[i], 0, arg.zone)]
                       \o (IF arg.cancel
                           THEN <<CancelledOf(EventKey(ParseEvent(<<UidX, Stamp1, Start1, SumM2>>)),
                                              [sequence |-> 0, contentHash |-> <<"h">>,
                                               lastSeen |-> 0], 1)>>
                           ELSE <<>>),
                     arg.zone)
    /\ stage' = "serializeCalendar"
    /\ UNCHANGED <<arg, recon, handler>>

NextSerial == SerializeFeed

SpecSerial == InitSerial /\ [][NextSerial]_vars

\* The lines of the serialized output.
OutputLines == SplitLines(res)

BlockStarts == {i \in 1..Len(OutputLines) : OutputLines[i] = <<"BEGIN", ":", "VTIMEZONE">>}

\* The TZID of the block that starts at line i of the output.
BlockTzid(i) == LineValue(OutputLines[i + 1])

\* The block that starts at line i was generated, not taken from upstream.
Injected(i) == OutputLines[i + 2] = <<"BEGIN", ":", "STANDARD">>

EffectiveZone == IF arg.zone # <<>> THEN arg.zone ELSE DEFAULT_TIMEZONE

\* C34: in every serialized output there is at most one VTIMEZONE block per
\* TZID: a block for the tenant's default zone is injected only when no
\* upstream block ends up, after identifier rewriting, with that zone as TZID.
OneBlockPerTzid ==
    stage = "serializeCalendar" =>
        /\ \A i, j \in BlockStarts : i # j => BlockTzid(i) # BlockTzid(j)
        /\ \A i \in BlockStarts :
              Injected(i) =>
                  \A k \in 1..Len(arg.blocks) : normalizeTimezone(arg.blocks[k]) # EffectiveZone

\* The same for feeds whose blocks carry IANA identifiers only.
OneBlockPerIanaTzid ==
    (stage = "serializeCalendar" /\ \A k \in 1..Len(arg.blocks) : arg.blocks[k] \notin MsTimezoneNames) =>
        \A i, j \in BlockStarts : i # j => BlockTzid(i) # BlockTzid(j)

CalendarEnds == {i \in 1..Len(OutputLines) : OutputLines[i] = CalEnd}

\* C35: in every serialized output, also of a feed with no VEVENT, the
\* END:VCALENDAR line occurs exactly once and is the last line, every
\* VTIMEZONE block and every VEVENT standing before it.
CalendarEndLast ==
    stage = "serializeCalendar" => CalendarEnds = {Len(OutputLines)}

\* The same for the feeds with a VEVENT.
CalendarEndLastWithEvent ==
    (stage = "serializeCalendar" /\ arg.event) => CalendarEnds = {Len(OutputLines)}

-----------------------------------------------------------------------------
(* A change of the tenant's timezone through /register (index.ts) *)

\* The zones a registration can name.
RegisterZones == { <<"America/Chicago">>, <<"Europe/Berlin">> }

\* handleRegister for the registered URL with a timezone other than the stored
\* one: the config is saved with the new timezone.  tz stands for
\* config.timezone as the next calendar request reads it; arg records the
\* request that was the last one before the change.
RegisterTimezone ==
    /\ request.at \in {"none", "responded"}
    /\ arg = NoValue
    /\ getTenantConfig(kv, TenantHash) # NoValue
    /\ \E timezone \in RegisterZones \ {tz} :
          /\ tz' = timezone
          /\ kv' = KvPut(kv, TenantKey(TenantHash),
                         [sourceUrl |-> getTenantConfig(kv, TenantHash).sourceUrl,
                          createdAt |-> getTenantConfig(kv, TenantHash).createdAt,
                          timezone |-> timezone])
    /\ arg' = [changedAfter |-> request.id]
    /\ response' = jsonResponse("registered", 200)
    /\ UNCHANGED <<now, runs, pc, feed, idx, currentKeys, normalizedEvents, kvWrites,
                   prevSnapshot, kvAtStart, emittedBefore, lastCancel, prevRun>>
    /\ UNCHANGED <<res, stage, request, background>>

NextRezone ==
    \/ NextRequest
    \/ RegisterTimezone

SpecRezone == InitRequest /\ [][NextRezone]_vars

\* A calendar request received after the change has been answered with a body.
AnsweredAfterChange ==
    /\ arg # NoValue
    /\ request.id > arg.changedAfter
    /\ request.at = "responded"
    /\ response.status = 200

\* The body has a VTIMEZONE block of the zone and none of another zone a
\* registration can name, and no DTSTART in such another zone.
UsesZone(body, zone) ==
    /\ FindSub(body, <<"TZID", ":">> \o zone) # 0
    /\ \A other \in RegisterZones \ {zone} :
          /\ FindSub(body, <<"TZID", ":">> \o other) = 0
          /\ FindSub(body, <<"DTSTART", ";", "TZID", "=">> \o other) = 0

\* C36: after the tenant's timezone has been changed through /register, every
\* later calendar response whose body was built from a successful upstream
\* fetch uses the new zone for floating times and for the injected VTIMEZONE,
\* also when the upstream bytes are unchanged since the previous request.
NewZoneUsed ==
    (AnsweredAfterChange /\ request.path \in {"fresh", "cached"}) =>
        UsesZone(response.body.text, tz)

\* The same for the responses that were serialized by the request itself.
NewZoneUsedWhenSerialized ==
    (AnsweredAfterChange /\ request.path = "fresh") => UsesZone(response.body.text, tz)

-----------------------------------------------------------------------------
(* Live events and cancellations in the output of one run, stated on Spec *)

\* The event-keys of the run's current parse.
ParsedKeys == {EventKey(feed[k]) : k \in 1..Len(feed)}

\* C37: no run's output contains both a live (normalized) VEVENT and a
\* synthesized STATUS:CANCELLED VEVENT for the same event-key, and no
\* cancellation is emitted for an event-key present in the run's current parse.
CancelledOnlyWhenAbsent ==
    \A i \in 1..Len(normalizedEvents) :
        normalizedEvents[i].cancelled =>
            /\ normalizedEvents[i].eventKey \notin ParsedKeys
            /\ \A j \in 1..Len(normalizedEvents) :
                  ~normalizedEvents[j].cancelled =>
                      normalizedEvents[j].eventKey # normalizedEvents[i].eventKey

\* A run returned an output with a live event and a cancellation, of a key
\* the previous snapshot held.
LiveBesideCancelled ==
    /\ pc = "done"
    /\ \E i, j \in 1..Len(normalizedEvents) :
          /\ normalizedEvents[i].cancelled
          /\ ~normalizedEvents[j].cancelled
          /\ normalizedEvents[i].eventKey \in Range(OldKeys)

=============================================================================
